---- MODULE Spec2Model ----
(***************************************************************************)
(* Submission lifecycle of main.py: the applications table, the admin      *)
(* decision handler (handle_admin_decision), the shared publish routine    *)
(* (publish_application_to_channel) and the periodic publisher             *)
(* (scheduled_publication_check).                                          *)
(* Further: the user's dialogue (the ConversationHandler of main.py) and   *)
(* the pure functions validate_name and censor_text of main.py and bot.py.  *)
(*                                                                         *)
(* The handler and the publisher are coroutines on one event loop: the     *)
(* code between two awaits runs atomically, and at an await the other      *)
(* coroutine may run.  Every action below is one such atomic segment: it   *)
(* completes the await the coroutine is suspended at and runs the code up  *)
(* to the next await (or to the return).                                   *)
(*                                                                         *)
(* SQL NULL / Python None is the empty set, a present value v is {v}.      *)
(* Dates are day numbers; publish_date strings are always written with     *)
(* strftime("%Y-%m-%d"), so the ValueError branches of strptime are not    *)
(* reachable and are not modelled.                                         *)
(***************************************************************************)
EXTENDS Integers, Sequences, FiniteSets, TLC

\* ---------------------------------------------------------------- bounds
MaxApps == 1          \* rows the applications table may hold
MaxSends == 1         \* marking may fail only while channel[i] < MaxSends
MaxNameLen == 3       \* length of the enumerated name inputs
MaxChunks == 3        \* pieces an enumerated text input is made of
CycleRows == 2        \* rows of the table a lone publisher cycle starts on

\* ------------------------------------------------------- program constants
ADMIN_CHAT_ID == 1    \* the configured moderator identity
today == 1            \* datetime.now().date(): a behaviour covers one calendar day
GroupChat == 7        \* a valid GROUP_ID value
Author == 5           \* user_id of the submitting user

NULL == {}
Some(v) == {v}
Val(o) == CHOOSE v \in o : TRUE

Actors == {ADMIN_CHAT_ID, ADMIN_CHAT_ID + 1}
AppIds == 1..MaxApps
\* The dates a dialogue stores: due on the day it completes, or later.
PublishDates == {today, today + 1}

VARIABLES
    GROUP_ID,       \* configuration: NULL, {0} or {GroupChat}
    applications,   \* the applications table: row i has id i
    adm,            \* the handle_admin_decision coroutine
    sch,            \* the scheduled_publication_check coroutine
    channel,        \* channel[i]: messages of submission i delivered to GROUP_ID
    pub_notes,      \* pub_notes[i]: publication notices sent to the author
    rej_notes,      \* rej_notes[i]: a rejection notice was sent to the author
    faulted,        \* a store call or a send to GROUP_ID has failed
    contents,       \* contents[i]: the type and text columns of row i
    admin_msgs,     \* ids of the submissions sent to the moderator's chat
    conv,           \* the dialogue of one user: state, user_data, last update
    fn              \* the last call of validate_name / censor_text

vars == <<GROUP_ID, applications, adm, sch, channel, pub_notes, rej_notes,
          faulted, contents, admin_msgs, conv, fn>>

\* What the decision handler and the publisher own, and what the dialogue owns.
moderation == <<GROUP_ID, adm, sch, channel, pub_notes, rej_notes>>
dialogue == <<contents, admin_msgs, conv>>

\* ------------------------------------------------------------ configuration
\* IS_PUBLISHING_ENABLED is set exactly when GROUP_ID_STR parses as an integer.
IS_PUBLISHING_ENABLED == GROUP_ID # NULL

\* Python truthiness of an Optional[int].
Truthy(o) == o # NULL /\ o # Some(0)

\* The condition under which publish_application_to_channel does not skip
\* with "Publishing is disabled".
PublishingOn == IS_PUBLISHING_ENABLED /\ Truthy(GROUP_ID)

\* ------------------------------------------------------------------ store
Exists(apps, app_id) == app_id \in 1..Len(apps)

\* INSERT INTO applications ...: status defaults to 'pending', published_at NULL.
add_application(apps, publish_date) ==
    Append(apps, [id |-> Len(apps) + 1, user_id |-> Author,
                  publish_date |-> publish_date, status |-> "pending",
                  published_at |-> NULL])

\* SELECT * FROM applications WHERE id = ?  (None when the row is missing or
\* the connection failed).
get_application_details(apps, app_id, ok) ==
    IF ok /\ Exists(apps, app_id) THEN Some(apps[app_id]) ELSE NULL

\* The row dict of the publisher's query: published_at is not selected, so
\* app_data.get('published_at') is None for every row.
QueryRow(r) == [r EXCEPT !.published_at = NULL]

RECURSIVE SelectRows(_, _)
SelectRows(apps, i) ==
    IF i > Len(apps) THEN <<>>
    ELSE IF apps[i].status = "approved" /\ apps[i].published_at = NULL
         THEN <<QueryRow(apps[i])>> \o SelectRows(apps, i + 1)
         ELSE SelectRows(apps, i + 1)

\* Mutant: the query without "AND published_at IS NULL".
RECURSIVE SelectApproved(_, _)
SelectApproved(apps, i) ==
    IF i > Len(apps) THEN <<>>
    ELSE IF apps[i].status = "approved"
         THEN <<QueryRow(apps[i])>> \o SelectApproved(apps, i + 1)
         ELSE SelectApproved(apps, i + 1)

QueryIgnoringPublishedAt(apps, ok) ==
    IF ok THEN SelectApproved(apps, 1) ELSE <<>>

\* SELECT ... WHERE status = 'approved' AND published_at IS NULL
get_approved_unpublished_applications(apps, ok) ==
    IF ok THEN SelectRows(apps, 1) ELSE <<>>

\* UPDATE applications SET status = ? WHERE id = ?
update_application_status(apps, app_id, status, ok) ==
    IF ok /\ Exists(apps, app_id)
    THEN [apps EXCEPT ![app_id].status = status]
    ELSE apps

\* Mutant: a failed marking takes the row out of the approved state.
MarkFailureDropsRow(apps, app_id, now, ok) ==
    IF ~Exists(apps, app_id) THEN apps
    ELSE IF ok
    THEN [apps EXCEPT ![app_id].published_at = Some(now),
                      ![app_id].status = "published"]
    ELSE [apps EXCEPT ![app_id].status = "rejected"]

\* UPDATE applications SET published_at = CURRENT_TIMESTAMP,
\*                         status = 'published' WHERE id = ?
mark_application_as_published(apps, app_id, now, ok) ==
    IF ok /\ Exists(apps, app_id)
    THEN [apps EXCEPT ![app_id].published_at = Some(now),
                      ![app_id].status = "published"]
    ELSE apps

\* ------------------------------------------------------------------- text
\* A str is a sequence of characters.  A Cyrillic letter is written by its
\* transliteration ("ya", "soft", "Sch" for the capital), every other
\* character by itself.
CyrLower ==
    <<"a", "b", "v", "g", "d", "e", "yo", "zh", "z", "i", "j", "k", "l", "m", "n", "o", "p",
      "r", "s", "t", "u", "f", "h", "c", "ch", "sh", "sch", "hard", "y", "soft", "eh", "yu", "ya">>

CyrUpper ==
    <<"A", "B", "V", "G", "D", "E", "Yo", "Zh", "Z", "I", "J", "K", "L", "M", "N", "O", "P",
      "R", "S", "T", "U", "F", "H", "C", "Ch", "Sh", "Sch", "Hard", "Y", "Soft", "Eh", "Yu", "Ya">>

DEFAULT_BAD_WORDS ==
    <<<<"h", "u", "j">>, <<"p", "i", "z", "d", "a">>,
      <<"b", "l", "ya", "t", "soft">>, <<"b", "l", "ya", "d", "soft">>,
      <<"e", "b", "a", "t", "soft">>, <<"s", "u", "k", "a">>>>

BOT_DEFAULT_BAD_WORDS ==
    <<<<"h", "u", "j">>, <<"p", "i", "z", "d", "a">>,
      <<"b", "l", "ya", "t", "soft">>, <<"b", "l", "ya", "d", "soft">>,
      <<"e", "b", "a", "t", "soft">>, <<"s", "u", "k", "a">>,
      <<"n", "o", "m", "e", "r">>, <<"t", "e", "l", "e", "f", "o", "n">>,
      <<"z", "v", "o", "n", "i", "t", "e">>,
      <<"p", "i", "sh", "i", "t", "e">>,
      <<"k", "o", "n", "t", "a", "k", "t">>, <<"m", "i", "n", "e", "t">>,
      <<"m", "i", "n", "e", "t", "ch", "i", "k">>,
      <<"m", "i", "n", "e", "t", "ch", "i", "c", "a">>,
      <<"m", "o", "k", "r", "o", "sch", "e", "l", "k", "a">>,
      <<"m", "o", "k", "r", "o", "sch", "yo", "l", "k", "a">>,
      <<"m", "a", "n", "d", "a">>,
      <<"m", "a", "n", "d", "a", "v", "o", "sh", "k", "a">>,
      <<"m", "a", "n", "d", "a", "v", "o", "sh", "k", "i">>,
      <<"m", "a", "n", "d", "e", "j">>,
      <<"m", "a", "n", "d", "e", "n", "soft">>,
      <<"m", "a", "n", "d", "e", "t", "soft">>,
      <<"m", "a", "n", "d", "i", "sch", "a">>,
      <<"m", "a", "n", "d", "o", "j">>, <<"m", "a", "n", "d", "u">>,
      <<"m", "a", "n", "d", "yu", "k">>,
      <<"m", "a", "n", "d", "yu", "g", "a">>,
      <<"m", "u", "d", "o", "e", "b">>,
      <<"m", "u", "d", "o", "z", "v", "o", "n">>,
      <<"m", "u", "d", "o", "k", "l", "yu", "j">>,
      <<"n", "a", "e", "b", "a", "t", "soft">>,
      <<"n", "a", "e", "b", "e", "t">>,
      <<"n", "a", "e", "b", "n", "u", "t", "soft">>,
      <<"n", "a", "e", "b", "y", "v", "a", "t", "soft">>,
      <<"o", "b", "o", "s", "r", "a", "t", "soft">>,
      <<"o", "b", "o", "s", "c", "a", "t", "soft">>,
      <<"o", "b", "o", "s", "c", "a", "t", "soft", "s", "ya">>,
      <<"o", "b", "d", "r", "i", "s", "t", "a", "t", "soft", "s", "ya">>,
      <<"o", "b", "hard", "e", "b", "o", "s">>,
      <<"o", "b", "soft", "e", "b", "a", "t", "soft">>,
      <<"o", "b", "soft", "e", "b", "o", "s">>,
      <<"o", "t", "p", "i", "z", "d", "i", "t", "soft">>,
      <<"o", "t", "p", "i", "z", "d", "ya", "ch", "i", "t", "soft">>,
      <<"o", "t", "p", "o", "r", "o", "t", "soft">>,
      <<"o", "t", "hard", "e", "b", "i", "s", "soft">>,
      <<"o", "s", "t", "o", "e", "b", "e", "n", "i", "t", "soft">>,
      <<"o", "s", "t", "o", "p", "i", "z", "d", "e", "t", "soft">>,
      <<"o", "h", "u", "e", "t", "soft">>,
      <<"o", "h", "u", "e", "n", "n", "o">>,
      <<"o", "h", "u", "e", "v", "a", "t", "soft">>,
      <<"o", "h", "u", "e", "v", "a", "yu", "sch", "i", "j">>,
      <<"p", "a", "s", "k", "u", "d", "a">>, <<"p", "a", "d", "l", "a">>,
      <<"p", "a", "s", "k", "u", "d", "n", "i", "k">>,
      <<"n", "a", "h", "e", "r">>, <<"n", "a", "h", "r", "e", "n">>,
      <<"n", "a", "h", "u", "j">>, <<"n", "e", "h", "e", "r", "a">>,
      <<"n", "e", "h", "r", "e", "n">>, <<"n", "e", "h", "u", "j">>,
      <<"n", "i", "k", "u", "ya">>, <<"n", "i", "h", "u", "ya">>,
      <<"n", "i", "h", "e", "r", "a">>,
      <<"n", "e", "p", "i", "z", "d", "a">>,
      <<"n", "i", "p", "i", "z", "d", "a">>,
      <<"n", "i", "p", "i", "z", "d", "u">>,
      <<"n", "a", "p", "i", "z", "d", "e", "l">>,
      <<"n", "a", "p", "i", "z", "d", "i", "l", "i">>,
      <<"n", "a", "e", "b", "n", "u", "l", "s", "ya">>,
      <<"n", "a", "e", "b", "a", "l", "s", "ya">>,
      <<"p", "e", "r", "d", "e", "zh">>,
      <<"p", "e", "r", "d", "e", "n", "i", "e">>,
      <<"p", "e", "r", "d", "e", "t", "soft">>,
      <<"p", "e", "r", "d", "i", "l", "soft", "n", "i", "k">>,
      <<"p", "e", "r", "d", "u", "n">>,
      <<"p", "e", "r", "d", "u", "n", "e", "c">>,
      <<"p", "e", "r", "d", "u", "n", "soft", "ya">>,
      <<"p", "e", "r", "d", "u", "h", "a">>,
      <<"p", "e", "r", "d", "u", "l", "soft", "k", "i">>,
      <<"p", "e", "r", "d", "n", "u", "t", "soft">>,
      <<"p", "yo", "r", "n", "u", "t", "soft">>,
      <<"p", "e", "r", "n", "u", "t", "soft">>,
      <<"p", "e", "r", "d", "ya", "t">>, <<"p", "i", "z", "d", "ya", "t">>,
      <<"p", "i", "z", "d", "i", "t", "soft">>,
      <<"p", "i", "z", "d", "i", "sh", "soft">>,
      <<"p", "i", "z", "d", "i", "t", "s", "ya">>,
      <<"z", "a", "e", "b", "a", "l">>, <<"z", "a", "e", "b", "l", "o">>,
      <<"p", "i", "d", "a", "r">>, <<"p", "i", "d", "a", "r", "a", "s">>,
      <<"p", "i", "d", "o", "r">>, <<"p", "i", "d", "o", "r", "a", "s">>,
      <<"p", "i", "d", "i", "k">>, <<"p", "e", "d", "r", "i", "k">>,
      <<"p", "e", "d", "e", "r", "a", "s", "t">>,
      <<"p", "i", "d", "r", "a", "s">>, <<"p", "i", "d", "r", "y">>,
      <<"p", "i", "d", "r", "i", "l", "y">>,
      <<"p", "i", "d", "r", "i", "l", "o">>,
      <<"p", "e", "d", "r", "i", "l", "o">>,
      <<"b", "l", "ya", "d", "i", "n", "a">>,
      <<"b", "l", "ya", "d", "soft">>,
      <<"b", "l", "ya", "d", "s", "t", "v", "o">>,
      <<"b", "l", "ya", "d", "s", "t", "v", "u", "yu", "sch", "i", "e">>,
      <<"b", "l", "ya", "d", "s", "t", "v", "u", "e", "t">>,
      <<"sh", "a", "l", "a", "v", "a">>,
      <<"sh", "a", "l", "a", "v", "o", "s", "t", "soft">>,
      <<"sh", "a", "l", "a", "v", "i", "t", "soft", "s", "ya">>>>

ContactKeywords ==
    <<<<"z", "v", "o", "n", "i", "t", "e">>,
      <<"p", "i", "sh", "i", "t", "e">>,
      <<"t", "e", "l", "e", "f", "o", "n">>, <<"n", "o", "m", "e", "r">>,
      <<"t", "e", "l", ".">>, <<"t", "e", "l">>, <<"t", ".">>>>

ContactHidden ==
    <<"K", "o", "n", "t", "a", "k", "t", "n", "a", "ya", " ", "i", "n", "f", "o", "r", "m", "a", "c", "i", "ya", " ", "s", "k", "r", "y", "t", "a", " ", "(", "p", "i", "sh", "i", "t", "e", " ", "v", " ", "L", "S", ")">>

Digits == {"0", "1", "2", "3", "4", "5", "6", "7", "8", "9"}

Whitespace == {" ", "\n"}

\* Case folding of re.IGNORECASE and str.lower().
LowerOf ==
    [c \in {CyrUpper[k] : k \in 1..Len(CyrUpper)} |->
        CyrLower[CHOOSE k \in 1..Len(CyrUpper) : CyrUpper[k] = c]]

Lower(c) == IF c \in DOMAIN LowerOf THEN LowerOf[c] ELSE c

Min(S) == CHOOSE x \in S : \A y \in S : x <= y

RECURSIVE lstrip(_)
lstrip(s) == IF s # <<>> /\ s[1] \in Whitespace THEN lstrip(Tail(s)) ELSE s

RECURSIVE rstrip(_)
rstrip(s) ==
    IF s # <<>> /\ s[Len(s)] \in Whitespace
    THEN rstrip(SubSeq(s, 1, Len(s) - 1))
    ELSE s

strip(s) == rstrip(lstrip(s))

MAX_NAME_LENGTH == 50
MAX_CONGRAT_TEXT_LENGTH == 500
MAX_ANNOUNCE_NEWS_TEXT_LENGTH == 300

allowed_chars ==
    {CyrLower[k] : k \in 1..Len(CyrLower)} \cup
    {CyrUpper[k] : k \in 1..Len(CyrUpper)} \cup {" ", "-"}

\* main.py: the stripped name is non-empty, has 2..50 characters, all allowed.
validate_name(name) ==
    LET n == strip(name)
    IN  /\ n # <<>>
        /\ 2 <= Len(n) /\ Len(n) <= MAX_NAME_LENGTH
        /\ \A k \in 1..Len(n) : n[k] \in allowed_chars

\* bot.py: the same, and no hyphen at either end and no doubled hyphen.
bot_validate_name(name) ==
    IF name = <<>> \/ strip(name) = <<>> THEN FALSE
    ELSE LET n == strip(name)
         IN  /\ 2 <= Len(n) /\ Len(n) <= MAX_NAME_LENGTH
             /\ \A k \in 1..Len(n) : n[k] \in allowed_chars
             /\ n[1] # "-"
             /\ n[Len(n)] # "-"
             /\ ~\E k \in 1..(Len(n) - 1) : n[k] = "-" /\ n[k + 1] = "-"

LowerSeq(s) == [k \in 1..Len(s) |-> Lower(s[k])]

\* A literal pattern matched at position i of the string, ignoring case
\* (both arguments case-folded).
FoldedMatchAt(pattern, string, i) ==
    /\ i + Len(pattern) - 1 <= Len(string)
    /\ \A k \in 1..Len(pattern) : string[i + k - 1] = pattern[k]

MatchAt(pattern, string, i) ==
    FoldedMatchAt(LowerSeq(pattern), LowerSeq(string), i)

\* The positions of the string where the pattern matches.
Matches(pattern, string) ==
    LET folded_pattern == LowerSeq(pattern) \o <<>>
        folded_string == LowerSeq(string) \o <<>>
    IN {i \in 1..Len(string) : FoldedMatchAt(folded_pattern, folded_string, i)}

re_search(pattern, string) == Matches(pattern, string) # {}

\* re.sub: the non-overlapping matches, leftmost first, are replaced.
RECURSIVE SubFrom(_, _, _, _)
SubFrom(pattern, repl, string, i) ==
    LET ms == {j \in Matches(pattern, string) : j >= i}
    IN  IF ms = {} THEN SubSeq(string, i, Len(string))
        ELSE SubSeq(string, i, Min(ms) - 1) \o repl
             \o SubFrom(pattern, repl, string, Min(ms) + Len(pattern))

\* Mutant: only the first match is replaced (count = 1).
re_sub_first(pattern, repl, string) ==
    LET ms == Matches(pattern, string)
    IN  IF ms = {} THEN string
        ELSE SubSeq(string, 1, Min(ms) - 1) \o repl
             \o SubSeq(string, Min(ms) + Len(pattern), Len(string))

re_sub(pattern, repl, string) == SubFrom(pattern, repl, string, 1)

Mask == <<"*", "*", "*">>

\* Mutant: a word found is reported and left in the text.
CensorWordUnmasked(word, c) ==
    IF re_search(word, c.text)
    THEN [c EXCEPT !.contains_bad_words = TRUE]
    ELSE c

\* The loop over the banned words: each word found is masked everywhere.
\* One pass of the loop body for `word`.
CensorWord(word, c) ==
    IF re_search(word, c.text)
    THEN [text |-> re_sub(word, Mask, c.text), contains_bad_words |-> TRUE]
    ELSE c

\* The loop over words[lo..hi], in list order.  It is evaluated by halves,
\* the first half before the second is entered.
RECURSIVE CensorRange(_, _, _, _)
CensorRange(words, lo, hi, c) ==
    IF lo > hi THEN c
    ELSE IF lo = hi THEN CensorWord(words[lo], c)
    ELSE LET mid == (lo + hi) \div 2
             first == CensorRange(words, lo, mid, c)
         IN IF first.contains_bad_words \in BOOLEAN
            THEN CensorRange(words, mid + 1, hi, first)
            ELSE first

CensorWords(words, text) ==
    CensorRange(words, 1, Len(words),
                [text |-> text, contains_bad_words |-> FALSE])

\* contact_pattern:
\*   (keyword)[:;\s]*([\+\d\(\).\s-]{7,})
\* ContactKeywords lists the alternatives in the order the regex tries them
\* ("tel\.?" is "tel." and then "tel").
SepChars == {":", ";"} \cup Whitespace

ClassChars == {"+", "(", ")", ".", "-"} \cup Digits \cup Whitespace

MinContactRun == 7

\* Length of the longest run of characters of `chars` starting at i.
Run(string, i, chars) ==
    LET stops == {j \in i..Len(string) : string[j] \notin chars}
    IN  IF stops = {} THEN Len(string) + 1 - i ELSE Min(stops) - i

\* After a keyword ending before p: the greedy separator run gives back
\* characters until a run of at least 7 class characters follows.  The end of
\* the match (first position after it), or 0.
ContactTail(string, p) ==
    LET qs == {q \in p..(p + Run(string, p, SepChars)) :
                  Run(string, q, ClassChars) >= MinContactRun}
    IN  IF qs = {} THEN 0
        ELSE LET q == CHOOSE x \in qs : \A y \in qs : y <= x
             IN q + Run(string, q, ClassChars)

\* The keywords are tried in the order of the alternation; `folded` is the
\* case-folded string.
RECURSIVE ContactMatch(_, _, _)
ContactMatch(folded, i, k) ==
    IF k > Len(ContactKeywords) THEN 0
    ELSE LET e == IF FoldedMatchAt(ContactKeywords[k], folded, i)
                  THEN ContactTail(folded, i + Len(ContactKeywords[k]))
                  ELSE 0
         IN IF e > 0 THEN e ELSE ContactMatch(folded, i, k + 1)

RECURSIVE ContactSub(_, _)
ContactSub(string, i) ==
    LET folded == LowerSeq(string)
        ms == {j \in i..Len(string) : ContactMatch(folded, j, 1) > 0}
    IN  IF ms = {} THEN SubSeq(string, i, Len(string))
        ELSE SubSeq(string, i, Min(ms) - 1) \o ContactHidden
             \o ContactSub(string, ContactMatch(folded, Min(ms), 1))

\* main.py: the banned words, then the contact pattern (which does not set
\* contains_bad_words).
censor_text(text) ==
    LET w == CensorWords(DEFAULT_BAD_WORDS, text)
    IN [text |-> ContactSub(w.text, 1),
        contains_bad_words |-> w.contains_bad_words]

\* bot.py: the banned words only.
bot_censor_text(text) == CensorWords(BOT_DEFAULT_BAD_WORDS, text)

\* ---------------------------------------------------------- enumerated inputs
Rep(c, n) == [k \in 1..n |-> c]

RECURSIVE Flatten(_)
Flatten(ss) == IF ss = <<>> THEN <<>> ELSE Head(ss) \o Flatten(Tail(ss))

SeqsUpTo(S, n) == UNION {[1..m -> S] : m \in 0..n}

NameChars == {"a", "Ya", " ", "-", "1"}

NameInputs ==
    SeqsUpTo(NameChars, MaxNameLen) \cup
    {Rep("a", MAX_NAME_LENGTH), Rep("a", MAX_NAME_LENGTH + 1),
     <<" ">> \o Rep("a", MAX_NAME_LENGTH) \o <<" ">>}

Chunks ==
    {<<"h", "u", "j">>, <<"S", "u", "k", "a">>, <<"n", "a">>,
     <<"z", "v", "o", "n", "i", "t", "e">>, <<"t", ".">>, <<" ">>,
     <<"1", "2", "3", "4", "5", "6", "7">>}

\* "zvonite 89991234567"
PhoneExample ==
    <<"z", "v", "o", "n", "i", "t", "e", " ",
      "8", "9", "9", "9", "1", "2", "3", "4", "5", "6", "7">>

TextInputs ==
    {Flatten(cs) : cs \in SeqsUpTo(Chunks, MaxChunks)} \cup {PhoneExample}

CleanText == <<"p", "r", "i", "v", "e", "t">>

\* -------------------------------------------------------------- coroutines
AdmIdle == [pc |-> "idle", actor |-> NULL, action |-> "none", app_id |-> 0,
            details |-> NULL, fresh |-> NULL, updated |-> "none",
            confirm |-> "none", notify |-> FALSE]

SchIdle == [pc |-> "idle", rows |-> <<>>, idx |-> 0]

NoCensor == [text |-> <<>>, contains_bad_words |-> FALSE]

FnIdle == [op |-> "none", arg |-> <<>>, valid |-> FALSE, bot_valid |-> FALSE,
           censored |-> NoCensor, bot_censored |-> NoCensor,
           recensored |-> NoCensor, bot_recensored |-> NoCensor]

\* context.user_data: a key that is absent is NULL.
NoData == [type |-> NULL, subtype |-> NULL, from_name |-> NULL,
           to_name |-> NULL, congrat_type |-> NULL, text |-> NULL,
           original_text |-> NULL, censored_text |-> NULL,
           publish_date |-> NULL]

\* No conversation is running (ConversationHandler.END).  handler, data and
\* text describe the last update a handler received, reply the message that
\* handler showed; now is the day of the year the clock shows.
ConvIdle == [state |-> "END", user_data |-> NoData, reply |-> "none",
             handler |-> "none", data |-> "", text |-> <<>>,
             now |-> [month |-> 1, day |-> 6]]

\* The dates the clock may show: the last and the first day after the window
\* of New Year, the first day of the window of 23 February, and 28 December.
ClockDays ==
    {[month |-> 1, day |-> 6], [month |-> 1, day |-> 7],
     [month |-> 2, day |-> 18], [month |-> 12, day |-> 28]}

\* The state after start-up on the given date.
InitOn(date) ==
    /\ GROUP_ID \in {NULL, Some(0), Some(GroupChat)}
    /\ applications = <<>>
    /\ adm = AdmIdle
    /\ sch = SchIdle
    /\ channel = [i \in AppIds |-> 0]
    /\ pub_notes = [i \in AppIds |-> 0]
    /\ rej_notes = [i \in AppIds |-> FALSE]
    /\ faulted = FALSE
    /\ contents = <<>>
    /\ admin_msgs = {}
    /\ conv = [ConvIdle EXCEPT !.now = date]
    /\ fn = FnIdle

Init == InitOn(ConvIdle.now)


\* ------------------------------------------------- the shared publish routine
\* publish_application_to_channel up to its first await: the routine returns
\* without sending (go = "return") or suspends in the send to GROUP_ID
\* (go = "send").  `ok` is the outcome of the store call of line 1138.
PublishEntry(apps, app_data, ok) ==
    IF ~IS_PUBLISHING_ENABLED \/ ~Truthy(GROUP_ID)
    THEN [go |-> "return", apps |-> apps, calls |-> 0]
    ELSE IF app_data.status # "approved"
    THEN [go |-> "return", apps |-> apps, calls |-> 0]
    ELSE IF app_data.published_at # NULL
    THEN [go |-> "return",
          apps |-> update_application_status(apps, app_data.id, "published", ok),
          calls |-> 1]
    ELSE [go |-> "send", apps |-> apps, calls |-> 0]

\* safe_send_message returns nothing and swallows every transport error, so
\* the caller continues the same way whether or not the message was delivered.
\* The channel log counts deliveries; the notices to the author and the edits of
\* the admin's message are logged as sent, their delivery changes nothing.
Deliver(log, app_id, ok_send) ==
    IF ok_send THEN [log EXCEPT ![app_id] = @ + 1] ELSE log

\* Mutant: the author is notified whether or not the marking succeeded.
PublishAfterSendAlwaysNotifying(apps, app_data, now, ok_mark) ==
    [apps |-> mark_application_as_published(apps, app_data.id, now, ok_mark),
     go |-> IF Truthy(Some(app_data.user_id)) THEN "notify" ELSE "return"]

\* publish_application_to_channel from the completion of the send to GROUP_ID:
\* the row is marked whatever the outcome of the send, and the author is
\* notified next when the marking succeeded.
PublishAfterSend(apps, app_data, now, ok_mark) ==
    [apps |-> mark_application_as_published(apps, app_data.id, now, ok_mark),
     go |-> IF ok_mark /\ Truthy(Some(app_data.user_id)) THEN "notify" ELSE "return"]

\* ---------------------------------------------------- handle_admin_decision
\* The button press arrives; the handler suspends in `await query.answer()`.
\* The dispatcher handles one update at a time.
Receive(actors) ==
    /\ adm.pc = "idle"
    /\ \E actor \in actors, action \in {"approve", "reject"}, app_id \in AppIds :
          adm' = [AdmIdle EXCEPT !.pc = "answer", !.actor = Some(actor),
                                 !.action = action, !.app_id = app_id]
    /\ UNCHANGED <<GROUP_ID, applications, sch, channel, pub_notes, rej_notes,
                   faulted>>
    /\ UNCHANGED <<dialogue, fn>>

\* Any user who can press the button.
AdminReceive == Receive(Actors)

\* The configured moderator presses the button.
ModeratorReceive == Receive({ADMIN_CHAT_ID})

\* Mutant: the immediate publication is given the record read before the
\* status update instead of the fresh one.
ApproveImmediateStale(apps, details, app_id, now, ok_fresh) ==
    IF IS_PUBLISHING_ENABLED /\ details.publish_date # NULL
       /\ details.published_at = NULL
    THEN IF Val(details.publish_date) <= now
         THEN LET e == PublishEntry(apps, details, TRUE)
              IN [apps |-> e.apps, fresh |-> Some(details), go |-> e.go, calls |-> 1]
         ELSE [apps |-> apps, fresh |-> NULL, go |-> "return", calls |-> 0]
    ELSE [apps |-> apps, fresh |-> NULL, go |-> "return", calls |-> 0]

\* The approve branch after a successful update_application_status: the
\* immediate-publication check, the fresh read and the entry of the publish
\* routine.
ApproveImmediate(apps, details, app_id, now, ok_fresh) ==
    IF IS_PUBLISHING_ENABLED /\ details.publish_date # NULL
       /\ details.published_at = NULL
    THEN IF Val(details.publish_date) <= now
         THEN LET fresh == get_application_details(apps, app_id, ok_fresh)
              IN IF fresh # NULL
                 THEN LET e == PublishEntry(apps, Val(fresh), TRUE)
                      IN [apps |-> e.apps, fresh |-> fresh, go |-> e.go, calls |-> 1]
                 ELSE [apps |-> apps, fresh |-> NULL, go |-> "return", calls |-> 1]
         ELSE [apps |-> apps, fresh |-> NULL, go |-> "return", calls |-> 0]
    ELSE [apps |-> apps, fresh |-> NULL, go |-> "return", calls |-> 0]

\* Mutant: only "approve on approved" counts as already decided.
AlreadyDecidedApprovedOnly(action, status) ==
    action = "approve" /\ status = "approved"

\* The "already approved / published" and "already rejected" tests.
AlreadyDecided(action, status) ==
    \/ action = "approve" /\ status \in {"approved", "published"}
    \/ action = "reject" /\ status = "rejected"

\* From the read of the row to the first await after it: the send of the
\* publish routine (pc = "send") or the edit of the admin's message
\* (pc = "confirm").  ok_get, ok_upd, ok_fresh are the outcomes of the store
\* calls; `calls` tells which of them were made, `res` what
\* update_application_status returned ("none" when it was not called).
\* Mutant: the author is also notified when the update of a reject failed.
DecideNotifyingOnFailure(apps, action, app_id, now, ok_get, ok_upd, ok_fresh) ==
    LET details == get_application_details(apps, app_id, ok_get)
        base == [apps |-> apps, details |-> details, fresh |-> NULL,
                 pc |-> "confirm", confirm |-> "none", notify |-> FALSE,
                 upd |-> FALSE, imm |-> FALSE, res |-> "none"]
    IN  IF details = NULL
        THEN [base EXCEPT !.confirm = "not_found"]
        ELSE IF Val(details).status = "rejected" /\ action = "reject"
        THEN [base EXCEPT !.confirm = "already_rejected"]
        ELSE IF Val(details).status \in {"approved", "published"} /\ action = "approve"
        THEN [base EXCEPT !.confirm = "already_approved"]
        ELSE IF ok_upd
        THEN IF action = "reject"
             THEN [base EXCEPT
                     !.apps = update_application_status(apps, app_id, "rejected", TRUE),
                     !.confirm = "rejected", !.notify = TRUE, !.upd = TRUE,
                     !.res = "ok"]
             ELSE LET a == update_application_status(apps, app_id, "approved", TRUE)
                      p == ApproveImmediate(a, Val(details), app_id, now, ok_fresh)
                  IN [base EXCEPT !.apps = p.apps, !.fresh = p.fresh,
                                  !.pc = IF p.go = "send" THEN "send" ELSE "confirm",
                                  !.confirm = "approved", !.upd = TRUE,
                                  !.imm = (p.calls = 1), !.res = "ok"]
        ELSE [base EXCEPT !.confirm = "db_error", !.notify = TRUE, !.upd = TRUE,
                          !.res = "failed"]

Decide(apps, action, app_id, now, ok_get, ok_upd, ok_fresh) ==
    LET details == get_application_details(apps, app_id, ok_get)
        base == [apps |-> apps, details |-> details, fresh |-> NULL,
                 pc |-> "confirm", confirm |-> "none", notify |-> FALSE,
                 upd |-> FALSE, imm |-> FALSE, res |-> "none"]
    IN  IF details = NULL
        THEN [base EXCEPT !.confirm = "not_found"]
        ELSE IF action = "approve"
        THEN IF AlreadyDecided(action, Val(details).status)
             THEN [base EXCEPT !.confirm = "already_approved"]
             ELSE IF ok_upd
                  THEN LET a == update_application_status(apps, app_id, "approved", TRUE)
                           p == ApproveImmediate(a, Val(details), app_id, now, ok_fresh)
                       IN [base EXCEPT !.apps = p.apps, !.fresh = p.fresh,
                                       !.pc = IF p.go = "send" THEN "send" ELSE "confirm",
                                       !.confirm = "approved", !.upd = TRUE,
                                       !.imm = (p.calls = 1), !.res = "ok"]
                  ELSE [base EXCEPT !.confirm = "db_error", !.upd = TRUE,
                                    !.res = "failed"]
        ELSE IF action = "reject"
        THEN IF AlreadyDecided(action, Val(details).status)
             THEN [base EXCEPT !.confirm = "already_rejected"]
             ELSE IF ok_upd
                  THEN [base EXCEPT
                          !.apps = update_application_status(apps, app_id, "rejected", TRUE),
                          !.confirm = "rejected", !.notify = TRUE, !.upd = TRUE,
                          !.res = "ok"]
                  ELSE [base EXCEPT !.confirm = "db_error", !.upd = TRUE,
                                    !.res = "failed"]
        ELSE [base EXCEPT !.confirm = "unknown_action"]

AdminDecide ==
    /\ adm.pc = "answer"
    /\ \E ok_get, ok_upd, ok_fresh \in BOOLEAN :
          LET d == Decide(applications, adm.action, adm.app_id, today,
                          ok_get, ok_upd, ok_fresh)
          IN  /\ d.upd \/ ok_upd          \* an outcome is chosen only for a call made
              /\ d.imm \/ ok_fresh
              /\ applications' = d.apps
              /\ adm' = [adm EXCEPT !.pc = d.pc, !.details = d.details,
                                    !.fresh = d.fresh, !.updated = d.res,
                                    !.confirm = d.confirm, !.notify = d.notify]
              /\ faulted' = (faulted \/ ~(ok_get /\ ok_upd /\ ok_fresh))
    /\ UNCHANGED <<GROUP_ID, sch, channel, pub_notes, rej_notes>>
    /\ UNCHANGED <<dialogue, fn>>


\* The send of the immediate publication completes (delivered or not);
\* publish_application_to_channel marks the row and either suspends in the
\* author's notice or returns to the handler, which suspends in the edit of
\* the admin's message.
AdminSend ==
    /\ adm.pc = "send"
    /\ \E ok_send, ok_mark \in BOOLEAN :
          LET app_data == Val(adm.fresh)
              r == PublishAfterSend(applications, app_data, today, ok_mark)
          IN  /\ ok_mark \/ channel[app_data.id] < MaxSends
              /\ channel' = Deliver(channel, app_data.id, ok_send)
              /\ applications' = r.apps
              /\ adm' = [adm EXCEPT !.pc = IF r.go = "notify" THEN "pub_notify"
                                                              ELSE "confirm"]
              /\ faulted' = (faulted \/ ~(ok_send /\ ok_mark))
    /\ UNCHANGED <<GROUP_ID, sch, pub_notes, rej_notes>>
    /\ UNCHANGED <<dialogue, fn>>

\* The author's publication notice completes; the publish routine returns.
AdminPubNotify ==
    /\ adm.pc = "pub_notify"
    /\ pub_notes' = Deliver(pub_notes, adm.app_id, TRUE)
    /\ adm' = [adm EXCEPT !.pc = "confirm"]
    /\ UNCHANGED <<GROUP_ID, applications, sch, channel, rej_notes, faulted>>
    /\ UNCHANGED <<dialogue, fn>>

\* safe_edit_message_text(query, admin_confirm_text) completes; the handler
\* suspends in the author's rejection notice or returns.
AdminConfirm ==
    /\ adm.pc = "confirm"
    /\ adm' = IF adm.notify /\ adm.details # NULL
                  /\ Truthy(Some(Val(adm.details).user_id))
               THEN [adm EXCEPT !.pc = "notify"]
               ELSE AdmIdle
    /\ UNCHANGED <<GROUP_ID, applications, sch, channel, pub_notes, rej_notes,
                   faulted>>
    /\ UNCHANGED <<dialogue, fn>>

\* The author's rejection notice completes; the handler returns.
AdminNotify ==
    /\ adm.pc = "notify"
    /\ rej_notes' = [rej_notes EXCEPT ![adm.app_id] = TRUE]
    /\ adm' = AdmIdle
    /\ UNCHANGED <<GROUP_ID, applications, sch, channel, pub_notes, faulted>>
    /\ UNCHANGED <<dialogue, fn>>

\* ------------------------------------------------ scheduled_publication_check
\* The for loop from row i up to the next await: the index of the first row
\* whose publication suspends in the send, or Len(rows) + 1 when the loop ends.
\* Mutant: the loop does not compare publish_date with today.
SchedDueAnyDate(app_data, now) ==
    /\ ~(app_data.status # "approved" \/ app_data.published_at # NULL)
    /\ app_data.publish_date # NULL

\* The loop's own tests on a row: status and published_at once more, then
\* publish_date present and not later than today.
SchedDue(app_data, now) ==
    /\ ~(app_data.status # "approved" \/ app_data.published_at # NULL)
    /\ app_data.publish_date # NULL
    /\ Val(app_data.publish_date) <= now

RECURSIVE SchedLoop(_, _, _, _)
SchedLoop(apps, rows, i, now) ==
    IF i > Len(rows) THEN [idx |-> i, apps |-> apps]
    ELSE LET app_data == rows[i]
         IN IF SchedDue(app_data, now)
            THEN LET e == PublishEntry(apps, app_data, TRUE)
                 IN IF e.go = "send"
                    THEN [idx |-> i, apps |-> e.apps]
                    ELSE SchedLoop(e.apps, rows, i + 1, now)
            ELSE SchedLoop(apps, rows, i + 1, now)

\* Mutant: the cycle ends after the first row it has tried to publish.
SchedResumeOnce(r, rows) ==
    IF r.idx > Len(rows) \/ sch.pc # "idle" THEN SchIdle
    ELSE [pc |-> "send", rows |-> rows, idx |-> r.idx]

SchedResume(r, rows) ==
    IF r.idx > Len(rows) THEN SchIdle
    ELSE [pc |-> "send", rows |-> rows, idx |-> r.idx]

\* The job fires (it is scheduled only when IS_PUBLISHING_ENABLED, and one
\* instance at a time): the query, then the loop up to the first send.
SchedStart ==
    /\ sch.pc = "idle"
    /\ IS_PUBLISHING_ENABLED
    /\ \E ok_q \in BOOLEAN :
          LET rows == get_approved_unpublished_applications(applications, ok_q)
              r == SchedLoop(applications, rows, 1, today)
          IN  /\ applications' = r.apps
              /\ sch' = SchedResume(r, rows)
              /\ faulted' = (faulted \/ ~ok_q)
    /\ UNCHANGED <<GROUP_ID, adm, channel, pub_notes, rej_notes>>
    /\ UNCHANGED <<dialogue, fn>>

\* The send of row idx completes; the row is marked; the routine suspends in
\* the author's notice, or the loop goes on to the next send.
SchedSend ==
    /\ sch.pc = "send"
    /\ \E ok_send, ok_mark \in BOOLEAN :
          LET app_data == sch.rows[sch.idx]
              p == PublishAfterSend(applications, app_data, today, ok_mark)
              r == SchedLoop(p.apps, sch.rows, sch.idx + 1, today)
          IN  /\ ok_mark \/ channel[app_data.id] < MaxSends
              /\ channel' = Deliver(channel, app_data.id, ok_send)
              /\ IF p.go = "notify"
                 THEN /\ applications' = p.apps
                      /\ sch' = [sch EXCEPT !.pc = "notify"]
                 ELSE /\ applications' = r.apps
                      /\ sch' = SchedResume(r, sch.rows)
              /\ faulted' = (faulted \/ ~(ok_send /\ ok_mark))
    /\ UNCHANGED <<GROUP_ID, adm, pub_notes, rej_notes>>
    /\ UNCHANGED <<dialogue, fn>>

\* The author's publication notice of row idx completes; the loop goes on.
SchedNotify ==
    /\ sch.pc = "notify"
    /\ LET r == SchedLoop(applications, sch.rows, sch.idx + 1, today)
       IN  /\ pub_notes' = Deliver(pub_notes, sch.rows[sch.idx].id, TRUE)
           /\ applications' = r.apps
           /\ sch' = SchedResume(r, sch.rows)
    /\ UNCHANGED <<GROUP_ID, adm, channel, rej_notes, faulted>>
    /\ UNCHANGED <<dialogue, fn>>

\* A finished dialogue persists its submission (complete_request calling
\* add_application).  publish_date is always set: the holiday's date of the
\* current year, the day of completion, or a user date not before that day.
Submit ==
    /\ Len(applications) < MaxApps
    /\ \E d \in PublishDates :
          applications' = add_application(applications, Some(d))
    /\ contents' = Append(contents, [type |-> "news", text |-> CleanText])
    /\ admin_msgs' = admin_msgs \cup {Len(applications) + 1}
    /\ UNCHANGED <<GROUP_ID, adm, sch, channel, pub_notes, rej_notes, faulted>>
    /\ UNCHANGED <<conv, fn>>

Next ==
    \/ Submit
    \/ AdminReceive
    \/ AdminDecide
    \/ AdminSend
    \/ AdminPubNotify
    \/ AdminConfirm
    \/ AdminNotify
    \/ SchedStart
    \/ SchedSend
    \/ SchedNotify

\* Every user may press the buttons; handler and publisher interleave.
Spec == Init /\ [][Next]_vars

\* Only the moderator presses the buttons; handler and publisher interleave.
NextModerator ==
    \/ Submit
    \/ ModeratorReceive
    \/ AdminDecide
    \/ AdminSend
    \/ AdminPubNotify
    \/ AdminConfirm
    \/ AdminNotify
    \/ SchedStart
    \/ SchedSend
    \/ SchedNotify

SpecModerator == Init /\ [][NextModerator]_vars

\* Only the moderator presses the buttons, and a decision and a publisher
\* cycle never overlap: each starts when the other is not running.
SeqReceive == sch.pc = "idle" /\ ModeratorReceive

SeqSchedStart == adm.pc = "idle" /\ SchedStart

NextSeq ==
    \/ Submit
    \/ SeqReceive
    \/ AdminDecide
    \/ AdminSend
    \/ AdminPubNotify
    \/ AdminConfirm
    \/ AdminNotify
    \/ SeqSchedStart
    \/ SchedSend
    \/ SchedNotify

SpecSeq == Init /\ [][NextSeq]_vars

\* The moderator decides submissions that are still pending, the interval job
\* keeps firing with its query eventually succeeding, a suspended publisher
\* resumes, and the marking of a row eventually succeeds.
PendingReceive ==
    /\ ModeratorReceive
    /\ Exists(applications, adm'.app_id)
    /\ applications[adm'.app_id].status = "pending"

SchedStartOk == SchedStart /\ sch'.pc = "send"

SchedSendOk ==
    SchedSend /\ applications'[sch.rows[sch.idx].id].status = "published"

NextLive ==
    \/ Submit
    \/ PendingReceive
    \/ AdminDecide
    \/ AdminSend
    \/ AdminPubNotify
    \/ AdminConfirm
    \/ AdminNotify
    \/ SchedStart
    \/ SchedSend
    \/ SchedNotify

SpecLive ==
    /\ Init
    /\ [][NextLive]_vars
    /\ WF_vars(SchedStartOk)
    /\ SF_vars(SchedSendOk)
    /\ WF_vars(SchedNotify)

\* ------------------------------------------------ calls of the pure functions
\* A behaviour makes one call.
\* validate_name of main.py and of bot.py applied to a name.
ApplyValidateName ==
    /\ fn.op = "none"
    /\ \E name \in NameInputs :
          fn' = [FnIdle EXCEPT !.op = "validate_name", !.arg = name,
                               !.valid = validate_name(name),
                               !.bot_valid = bot_validate_name(name)]
    /\ UNCHANGED <<moderation, dialogue, applications, faulted>>

\* censor_text of main.py and of bot.py applied to a text, and then to the
\* text it returned.
ApplyCensorText ==
    /\ fn.op = "none"
    /\ \E text \in TextInputs :
          fn' = [FnIdle EXCEPT !.op = "censor_text", !.arg = text,
                               !.censored = censor_text(text),
                               !.bot_censored = bot_censor_text(text),
                               !.recensored = censor_text(censor_text(text).text),
                               !.bot_recensored =
                                   bot_censor_text(bot_censor_text(text).text)]
    /\ UNCHANGED <<moderation, dialogue, applications, faulted>>

\* ------------------------------------------------------------ the dialogue
\* One user's conversation (ConversationHandler, per user and chat).  Updates
\* are handled one at a time and the publisher reads approved rows only, so a
\* handler call, complete_request included, is one action.
\* A text message that starts with "/" is a command and never reaches a
\* MessageHandler(filters.TEXT & ~filters.COMMAND); a callback query never
\* reaches one either, so the callback and '/start' branches at the top of the
\* text handlers are not reachable and are not modelled.
\* A dialogue is followed while the table has room for its row.
Room == Len(applications) < MaxApps

REQUEST_TYPES == {"congrat", "announcement", "news"}
ANNOUNCE_SUBTYPES == {"ride", "offer", "lost"}

\* update.message is None when the update is a callback query.
start_command(c, has_message) ==
    IF ~has_message
    THEN [c EXCEPT !.state = "END", !.reply = "none"]
    ELSE [c EXCEPT !.state = "TYPE_SELECTION", !.user_data = NoData,
                   !.reply = "type_menu"]

cancel_command(c) ==
    [c EXCEPT !.state = "END", !.user_data = NoData, !.reply = "cancelled"]

\* The update a handler is called with.
Event(c, handler, data, text) ==
    [c EXCEPT !.handler = handler, !.data = data, !.text = text]

\* The states whose handler list holds
\* CallbackQueryHandler(start_command, pattern="^back_to_start$").
StartButtonStates ==
    {"TYPE_SELECTION", "SENDER_NAME_INPUT", "RECIPIENT_NAME_INPUT",
     "CUSTOM_CONGRAT_MESSAGE_INPUT", "CONGRAT_DATE_INPUT",
     "ANNOUNCE_TEXT_INPUT"}

\* /start: the entry point when no conversation runs, a fallback otherwise.
StartCommand ==
    /\ Room
    /\ \/ conv' = start_command(Event(conv, "start_command", "/start", <<>>),
                                TRUE)
       \/ /\ conv.state \in StartButtonStates
          /\ conv' = start_command(
                         Event(conv, "start_command", "back_to_start", <<>>),
                         FALSE)
    /\ UNCHANGED <<moderation, applications, faulted, contents, admin_msgs, fn>>

\* /cancel: a fallback, so it is handled only while a conversation runs.
CancelCommand ==
    /\ Room
    /\ conv.state # "END"
    /\ conv' = cancel_command(Event(conv, "cancel_command", "/cancel", <<>>))
    /\ UNCHANGED <<moderation, applications, faulted, contents, admin_msgs, fn>>

handle_type_selection(c) ==
    LET typed == [c EXCEPT !.user_data.type = Some(c.data)]
    IN  IF c.data = "congrat"
        THEN [typed EXCEPT !.state = "SENDER_NAME_INPUT",
                           !.reply = "ask_sender_name"]
        ELSE IF c.data = "announcement"
        THEN [typed EXCEPT !.state = "ANNOUNCE_SUBTYPE_SELECTION",
                           !.reply = "subtype_menu"]
        ELSE IF c.data = "news"
        THEN [typed EXCEPT !.state = "ANNOUNCE_TEXT_INPUT",
                           !.reply = "ask_news_text"]
        ELSE [typed EXCEPT !.state = "END", !.reply = "unknown_type"]

HandleTypeSelection ==
    /\ Room
    /\ conv.state = "TYPE_SELECTION"
    /\ \E d \in REQUEST_TYPES :
          conv' = handle_type_selection(
                      Event(conv, "handle_type_selection", d, <<>>))
    /\ UNCHANGED <<moderation, applications, faulted, contents, admin_msgs, fn>>

\* The names a user types: a valid one, a valid one that is a banned word, and
\* one with a character that is not allowed.
ConvNames == {<<"A", "n", "n", "a">>, <<"S", "u", "k", "a">>, <<"a", "1">>}

\* Mutant: a name that fails validate_name is stored all the same.
GetSenderNameStoringInvalid(c) ==
    [c EXCEPT !.user_data.from_name = Some(strip(c.text)),
              !.reply = "invalid_sender_name"]

get_sender_name(c) ==
    LET name == strip(c.text)
    IN  IF ~validate_name(name)
        THEN [c EXCEPT !.reply = "invalid_sender_name"]
        ELSE IF censor_text(name).contains_bad_words
        THEN [c EXCEPT !.state = "END", !.reply = "closed_bad_words"]
        ELSE [c EXCEPT !.user_data.from_name = Some(name),
                       !.state = "RECIPIENT_NAME_INPUT",
                       !.reply = "ask_recipient_name"]

GetSenderName ==
    /\ Room
    /\ conv.state = "SENDER_NAME_INPUT"
    /\ \E name \in ConvNames :
          conv' = get_sender_name(Event(conv, "get_sender_name", "", name))
    /\ UNCHANGED <<moderation, applications, faulted, contents, admin_msgs, fn>>

edit_sender_name(c) ==
    [c EXCEPT !.state = "SENDER_NAME_INPUT", !.reply = "ask_sender_name_again"]

EditSenderName ==
    /\ Room
    /\ conv.state = "RECIPIENT_NAME_INPUT"
    /\ conv' = edit_sender_name(
                   Event(conv, "edit_sender_name", "edit_sender_name", <<>>))
    /\ UNCHANGED <<moderation, applications, faulted, contents, admin_msgs, fn>>

\* Mutant: the recipient's name is not checked against the banned words.
GetRecipientNameUnfiltered(c) ==
    LET name == strip(c.text)
    IN  IF ~validate_name(name)
        THEN [c EXCEPT !.reply = "invalid_recipient_name"]
        ELSE [c EXCEPT !.user_data.to_name = Some(name),
                       !.state = "CONGRAT_HOLIDAY_CHOICE",
                       !.reply = "holiday_menu"]

get_recipient_name(c) ==
    LET name == strip(c.text)
    IN  IF ~validate_name(name)
        THEN [c EXCEPT !.reply = "invalid_recipient_name"]
        ELSE IF censor_text(name).contains_bad_words
        THEN [c EXCEPT !.state = "END", !.reply = "closed_bad_words"]
        ELSE [c EXCEPT !.user_data.to_name = Some(name),
                       !.state = "CONGRAT_HOLIDAY_CHOICE",
                       !.reply = "holiday_menu"]

GetRecipientName ==
    /\ Room
    /\ conv.state = "RECIPIENT_NAME_INPUT"
    /\ \E name \in ConvNames :
          conv' = get_recipient_name(
                      Event(conv, "get_recipient_name", "", name))
    /\ UNCHANGED <<moderation, applications, faulted, contents, admin_msgs, fn>>

edit_recipient_name(c) ==
    [c EXCEPT !.state = "RECIPIENT_NAME_INPUT",
              !.reply = "ask_recipient_name_again"]


\* HOLIDAYS: the month and day of each holiday (the keys are written without
\* their emoji).
HOLIDAYS ==
    "Novyj god" :> [month |-> 1, day |-> 1]
    @@ "23 Fevralya" :> [month |-> 2, day |-> 23]
    @@ "8 Marta" :> [month |-> 3, day |-> 8]
    @@ "9 Maya" :> [month |-> 5, day |-> 9]
    @@ "12 Iyunya" :> [month |-> 6, day |-> 12]
    @@ "4 Noyabrya" :> [month |-> 11, day |-> 4]

HOLIDAY_TEMPLATES ==
    "Novyj god" :>
       <<"S", " ", "N", "o", "v", "y", "m", " ", "g", "o", "d", "o", "m",
         "!", "\n", "P", "u", "s", "t", "soft", " ", "i", "s", "p", "o", "l",
         "n", "ya", "yu", "t", "s", "ya", " ", "v", "s", "e", " ", "v", "a",
         "sh", "i", " ", "zh", "e", "l", "a", "n", "i", "ya", "!">>
    @@ "23 Fevralya" :>
       <<"S", " ", "D", "n", "yo", "m", " ", "z", "a", "sch", "i", "t", "n",
         "i", "k", "a", " ", "O", "t", "e", "ch", "e", "s", "t", "v", "a",
         "!", "\n", "M", "u", "zh", "e", "s", "t", "v", "a", ",", " ", "o",
         "t", "v", "a", "g", "i", " ", "i", " ", "m", "i", "r", "n", "o",
         "g", "o", " ", "n", "e", "b", "a", " ", "n", "a", "d", " ", "g",
         "o", "l", "o", "v", "o", "j", "!">>
    @@ "8 Marta" :>
       <<"S", " ", "8", " ", "M", "a", "r", "t", "a", "!", "\n", "K", "r",
         "a", "s", "o", "t", "y", ",", " ", "s", "ch", "a", "s", "t", "soft",
         "ya", " ", "i", " ", "v", "e", "s", "e", "n", "n", "e", "g", "o",
         " ", "n", "a", "s", "t", "r", "o", "e", "n", "i", "ya", "!">>
    @@ "9 Maya" :>
       <<"S", " ", "D", "n", "yo", "m", " ", "P", "o", "b", "e", "d", "y",
         "!", "\n", "V", "e", "ch", "n", "a", "ya", " ", "p", "a", "m", "ya",
         "t", "soft", " ", "g", "e", "r", "o", "ya", "m", "!">>
    @@ "12 Iyunya" :>
       <<"S", " ", "D", "n", "yo", "m", " ", "R", "o", "s", "s", "i", "i",
         "!", "\n", "M", "i", "r", "a", ",", " ", "b", "l", "a", "g", "o",
         "p", "o", "l", "u", "ch", "i", "ya", " ", "i", " ", "p", "r", "o",
         "c", "v", "e", "t", "a", "n", "i", "ya", " ", "n", "a", "sh", "e",
         "j", " ", "s", "t", "r", "a", "n", "e", "!">>
    @@ "4 Noyabrya" :>
       <<"S", " ", "D", "n", "yo", "m", " ", "n", "a", "r", "o", "d", "n",
         "o", "g", "o", " ", "e", "d", "i", "n", "s", "t", "v", "a", "!",
         "\n", "S", "o", "g", "l", "a", "s", "i", "ya", ",", " ", "m", "i",
         "r", "a", " ", "i", " ", "d", "o", "b", "r", "a", "!">>

\* Days of the months of a year that is not a leap year.
MonthDays == <<31, 28, 31, 30, 31, 30, 31, 31, 30, 31, 30, 31>>

RECURSIVE DaysBefore(_)
DaysBefore(month) ==
    IF month = 1 THEN 0 ELSE MonthDays[month - 1] + DaysBefore(month - 1)

\* The position of a date in the current year.
DayOfYear(d) == DaysBefore(d.month) + d.day

\* Mutant: every holiday is active.
HolidayAlwaysActive(holiday_date, now) == TRUE

\* The holiday's date in the current year, five days either side, against
\* the date of the clock.
is_holiday_active(holiday_date, now) ==
    /\ DayOfYear(holiday_date) - 5 <= DayOfYear(now)
    /\ DayOfYear(now) <= DayOfYear(holiday_date) + 5

\* What a handler returns: the dialogue, the row complete_request inserted
\* (NULL when none), and whether the insert failed.
Stay(c) == [conv |-> c, row |-> NULL, failed |-> FALSE]

\* complete_request; ok: the connection opens and the INSERT succeeds.
\* user_data.clear() is reached only on the path that saved the row.
complete_request(c, ok) ==
    IF c.user_data.text = NULL
    THEN Stay([c EXCEPT !.state = "END", !.reply = "missing_text"])
    ELSE LET final == censor_text(Val(c.user_data.text))
             checked == [c EXCEPT !.user_data.text = Some(final.text)]
         IN IF final.contains_bad_words
            THEN Stay([c EXCEPT !.state = "END", !.reply = "closed_bad_words"])
            ELSE IF ~ok
            THEN [conv |-> [checked EXCEPT !.state = "END",
                                           !.reply = "save_error"],
                  row |-> NULL, failed |-> TRUE]
            ELSE [conv |-> [checked EXCEPT !.state = "END",
                                           !.user_data = NoData,
                                           !.reply = "sent_to_moderation"],
                  row |-> Some(checked.user_data), failed |-> FALSE]

\* Mutant: the moderator is notified before the INSERT has returned an id.
HandledNotifyingFirst(r) ==
    /\ conv' = r.conv
    /\ faulted' = (faulted \/ r.failed)
    /\ admin_msgs' = IF r.row # NULL \/ r.failed
                     THEN admin_msgs \cup {Len(applications) + 1}
                     ELSE admin_msgs
    /\ IF r.row = NULL
       THEN UNCHANGED <<applications, contents>>
       ELSE /\ applications' =
                   add_application(applications, Val(r.row).publish_date)
            /\ contents' =
                   Append(contents,
                          [type |-> Val(Val(r.row).type),
                           text |-> Val(Val(r.row).text),
                           subtype |-> Val(r.row).subtype,
                           from_name |-> Val(r.row).from_name,
                           to_name |-> Val(r.row).to_name,
                           congrat_type |-> Val(r.row).congrat_type])
    /\ UNCHANGED <<moderation, fn>>

\* The effects of a handler call on the table and on the moderator's chat:
\* send_to_admin_for_moderation sends when ADMIN_CHAT_ID is set, and
\* safe_send_message swallows a transport error, so the message may be lost
\* (sent = FALSE) while the handler goes on the same way.
Handled(r) ==
    /\ conv' = r.conv
    /\ faulted' = (faulted \/ r.failed)
    /\ IF r.row = NULL
       THEN UNCHANGED <<applications, contents, admin_msgs>>
       ELSE /\ applications' =
                   add_application(applications, Val(r.row).publish_date)
            /\ contents' =
                   Append(contents,
                          [type |-> Val(Val(r.row).type),
                           text |-> Val(Val(r.row).text),
                           subtype |-> Val(r.row).subtype,
                           from_name |-> Val(r.row).from_name,
                           to_name |-> Val(r.row).to_name,
                           congrat_type |-> Val(r.row).congrat_type])
            /\ \E sent \in BOOLEAN :
                  admin_msgs' = IF ADMIN_CHAT_ID # 0 /\ sent
                                THEN admin_msgs \cup {Len(applications) + 1}
                                ELSE admin_msgs
    /\ UNCHANGED <<moderation, fn>>

\* Mutant: the template is stored with today as its date.
HolidayChoicePublishingToday(c, ok) ==
    IF c.data \in DOMAIN HOLIDAYS /\ is_holiday_active(HOLIDAYS[c.data], c.now)
    THEN complete_request(
             [c EXCEPT !.user_data.congrat_type = Some(c.data),
                       !.user_data.text = Some(HOLIDAY_TEMPLATES[c.data]),
                       !.user_data.publish_date = Some(today)], ok)
    ELSE Stay([c EXCEPT !.user_data.congrat_type = Some(c.data),
                        !.reply = "holiday_inactive"])

handle_congrat_holiday_choice(c, ok) ==
    IF c.data = "back_to_start" THEN Stay(start_command(c, FALSE))
    ELSE IF c.data = "edit_sender_name" THEN Stay(edit_sender_name(c))
    ELSE IF c.data = "edit_recipient_name" THEN Stay(edit_recipient_name(c))
    ELSE LET chosen == [c EXCEPT !.user_data.congrat_type = Some(c.data)]
         IN IF c.data = "custom"
            THEN Stay([chosen EXCEPT !.state = "CUSTOM_CONGRAT_MESSAGE_INPUT",
                                     !.reply = "ask_custom_text"])
            ELSE IF c.data \in DOMAIN HOLIDAYS
            THEN IF ~is_holiday_active(HOLIDAYS[c.data], c.now)
                 THEN Stay([chosen EXCEPT !.reply = "holiday_inactive"])
                 ELSE complete_request(
                          [chosen EXCEPT
                              !.user_data.text =
                                  Some(HOLIDAY_TEMPLATES[c.data]),
                              !.user_data.publish_date =
                                  Some(today + DayOfYear(HOLIDAYS[c.data])
                                             - DayOfYear(c.now))],
                          ok)
            ELSE Stay([chosen EXCEPT !.reply = "invalid_holiday"])

HandleCongratHolidayChoice ==
    /\ Room
    /\ conv.state = "CONGRAT_HOLIDAY_CHOICE"
    /\ \E d \in DOMAIN HOLIDAYS \cup {"custom", "edit_sender_name",
                                      "edit_recipient_name", "back_to_start"},
          ok \in BOOLEAN :
          Handled(handle_congrat_holiday_choice(
                      Event(conv, "handle_congrat_holiday_choice", d, <<>>),
                      ok))

back_to_holiday_choice(c) ==
    [c EXCEPT !.state = "CONGRAT_HOLIDAY_CHOICE", !.reply = "holiday_menu"]

BackToHolidayChoice ==
    /\ Room
    /\ conv.state \in {"CUSTOM_CONGRAT_MESSAGE_INPUT", "CONGRAT_DATE_INPUT"}
    /\ conv' = back_to_holiday_choice(
                   Event(conv, "back_to_holiday_choice",
                         "back_to_holiday_choice", <<>>))
    /\ UNCHANGED <<moderation, applications, faulted, contents, admin_msgs, fn>>

\* The texts a user types: a clean one, one with a banned word, one with a
\* contact, a blank one, and one that is one character too long for the step.
ConvTexts(max_len) ==
    {CleanText, <<"h", "u", "j">>, PhoneExample, <<" ">>,
     Rep("a", max_len + 1)}

\* The shared body of the two text steps: the text is refused, closes the
\* dialogue, waits for the user's decision on the filtered text, or is kept.
TextStep(c, user_text, max_len, here) ==
    IF user_text = <<>> THEN [c EXCEPT !.reply = "empty_text"]
    ELSE IF Len(user_text) > max_len THEN [c EXCEPT !.reply = "text_too_long"]
    ELSE LET censored == censor_text(user_text)
         IN IF censored.contains_bad_words
            THEN [c EXCEPT !.state = "END", !.reply = "closed_bad_words"]
            ELSE LET kept == [c EXCEPT
                                 !.user_data.original_text = Some(user_text),
                                 !.user_data.censored_text =
                                     Some(censored.text),
                                 !.user_data.text = Some(censored.text)]
                 IN IF censored.text # user_text
                    THEN [kept EXCEPT !.state = "WAIT_CENSOR_APPROVAL",
                                      !.reply = "filter_edited"]
                    ELSE [kept EXCEPT !.state = here, !.reply = "text_kept"]

process_custom_congrat_message(c) ==
    LET r == TextStep(c, strip(c.text), MAX_CONGRAT_TEXT_LENGTH,
                      "CUSTOM_CONGRAT_MESSAGE_INPUT")
    IN  IF r.reply = "text_kept"
        THEN [r EXCEPT !.state = "CONGRAT_DATE_INPUT", !.reply = "ask_date"]
        ELSE r

ProcessCustomCongratMessage ==
    /\ Room
    /\ conv.state = "CUSTOM_CONGRAT_MESSAGE_INPUT"
    /\ \E text \in ConvTexts(MAX_CONGRAT_TEXT_LENGTH) :
          conv' = process_custom_congrat_message(
                      Event(conv, "process_custom_congrat_message", "", text))
    /\ UNCHANGED <<moderation, applications, faulted, contents, admin_msgs, fn>>

back_to_custom_message(c) ==
    [c EXCEPT !.state = "CUSTOM_CONGRAT_MESSAGE_INPUT",
              !.reply = "ask_custom_text"]

BackToCustomMessage ==
    /\ Room
    /\ conv.state = "CONGRAT_DATE_INPUT"
    /\ conv' = back_to_custom_message(
                   Event(conv, "back_to_custom_message",
                         "back_to_custom_message", <<>>))
    /\ UNCHANGED <<moderation, applications, faulted, contents, admin_msgs, fn>>

\* The year of the clock; it is not a leap year.
CurrentYear == 2025

IsLeap(year) == year % 4 = 0 /\ (year % 100 # 0 \/ year % 400 = 0)

DaysInMonth(year, month) ==
    IF month = 2 /\ IsLeap(year) THEN 29 ELSE MonthDays[month]

RECURSIVE DaysBeforeIn(_, _)
DaysBeforeIn(year, month) ==
    IF month = 1 THEN 0
    ELSE DaysInMonth(year, month - 1) + DaysBeforeIn(year, month - 1)

\* Days from 1 January of CurrentYear to 1 January of the year.
RECURSIVE YearStart(_)
YearStart(year) ==
    IF year = CurrentYear THEN 0
    ELSE IF year > CurrentYear
    THEN YearStart(year - 1) + (IF IsLeap(year - 1) THEN 366 ELSE 365)
    ELSE YearStart(year + 1) - (IF IsLeap(year) THEN 366 ELSE 365)

\* A date as a number of days, so that dates compare and subtract.
DateNumber(date) ==
    YearStart(date.year) + DaysBeforeIn(date.year, date.month) + date.day

\* datetime.now().date()
NowDate(c) == [year |-> CurrentYear, month |-> c.now.month, day |-> c.now.day]

\* The day number the table stores for a date (today is the day of the clock).
StoredDay(c, date) == today + DateNumber(date) - DateNumber(NowDate(c))

DigitOf ==
    [ch \in Digits |->
        CHOOSE n \in 0..9 :
            <<"0", "1", "2", "3", "4", "5", "6", "7", "8", "9">>[n + 1] = ch]

IsDigits(part) == part # <<>> /\ \A k \in 1..Len(part) : part[k] \in Digits

RECURSIVE Number(_)
Number(part) ==
    IF part = <<>> THEN 0
    ELSE 10 * Number(SubSeq(part, 1, Len(part) - 1)) + DigitOf[part[Len(part)]]

\* The parts of the string between the separators.
RECURSIVE Split(_, _)
Split(string, sep) ==
    LET at == {k \in 1..Len(string) : string[k] = sep}
    IN  IF at = {} THEN <<string>>
        ELSE <<SubSeq(string, 1, Min(at) - 1)>>
             \o Split(SubSeq(string, Min(at) + 1, Len(string)), sep)

\* datetime.strptime(date_str, "%d-%m-%Y"): one or two digits for the day and
\* for the month, four for the year, and the date must exist; NULL stands for
\* ValueError.
strptime_dmy(date_str, sep) ==
    LET parts == Split(date_str, sep)
    IN  IF Len(parts) # 3 THEN NULL
        ELSE IF ~(/\ IsDigits(parts[1]) /\ Len(parts[1]) <= 2
                  /\ IsDigits(parts[2]) /\ Len(parts[2]) <= 2
                  /\ IsDigits(parts[3]) /\ Len(parts[3]) = 4)
        THEN NULL
        ELSE LET date == [year |-> Number(parts[3]),
                          month |-> Number(parts[2]),
                          day |-> Number(parts[1])]
             IN IF /\ date.year >= 1
                   /\ date.month \in 1..12
                   /\ date.day \in 1..DaysInMonth(date.year, date.month)
                THEN Some(date)
                ELSE NULL

Segodnya == <<"s", "e", "g", "o", "d", "n", "ya">>

\* What a user types at the date step: the word for today (also capitalised),
\* 6, 7 and 8 January of the current year, a date without leading zeros, the
\* last day of the year before, a day that does not exist, a date with dots
\* and one with a two-digit year.
DateTexts ==
    {Segodnya, <<"S", "e", "g", "o", "d", "n", "ya">>,
     <<"0", "6", "-", "0", "1", "-", "2", "0", "2", "5">>,
     <<"0", "7", "-", "0", "1", "-", "2", "0", "2", "5">>,
     <<"0", "8", "-", "0", "1", "-", "2", "0", "2", "5">>,
     <<"7", "-", "1", "-", "2", "0", "2", "5">>,
     <<"3", "1", "-", "1", "2", "-", "2", "0", "2", "4">>,
     <<"2", "9", "-", "0", "2", "-", "2", "0", "2", "5">>,
     <<"0", "7", ".", "0", "1", ".", "2", "0", "2", "5">>,
     <<"0", "7", "-", "0", "1", "-", "2", "5">>}

\* Mutant: a date in the past is taken.
ProcessCongratDateAnyDate(c, ok) ==
    LET date_str == LowerSeq(strip(c.text))
        parsed == strptime_dmy(date_str, "-")
    IN  IF date_str = Segodnya
        THEN complete_request(
                 [c EXCEPT !.user_data.publish_date = Some(today)], ok)
        ELSE IF parsed = NULL
        THEN Stay([c EXCEPT !.reply = "bad_date_format"])
        ELSE complete_request(
                 [c EXCEPT !.user_data.publish_date =
                               Some(StoredDay(c, Val(parsed)))], ok)

\* The date step: the word for today, or a date that is not before today.
process_congrat_date(c, ok) ==
    LET date_str == LowerSeq(strip(c.text))
        parsed == strptime_dmy(date_str, "-")
    IN  IF date_str = Segodnya
        THEN complete_request(
                 [c EXCEPT !.user_data.publish_date = Some(today)], ok)
        ELSE IF parsed = NULL
        THEN Stay([c EXCEPT !.reply = "bad_date_format"])
        ELSE IF DateNumber(Val(parsed)) < DateNumber(NowDate(c))
        THEN Stay([c EXCEPT !.reply = "date_in_past"])
        ELSE complete_request(
                 [c EXCEPT !.user_data.publish_date =
                               Some(StoredDay(c, Val(parsed)))], ok)

ProcessCongratDate ==
    /\ Room
    /\ conv.state = "CONGRAT_DATE_INPUT"
    /\ \E text \in DateTexts, ok \in BOOLEAN :
          Handled(process_congrat_date(
                      Event(conv, "process_congrat_date", "", text), ok))

handle_announce_subtype_selection(c) ==
    IF c.data = "back_to_start" THEN start_command(c, FALSE)
    ELSE [c EXCEPT !.user_data.subtype = Some(c.data),
                   !.state = "ANNOUNCE_TEXT_INPUT",
                   !.reply = "ask_announce_text"]

HandleAnnounceSubtypeSelection ==
    /\ Room
    /\ conv.state = "ANNOUNCE_SUBTYPE_SELECTION"
    /\ \E d \in ANNOUNCE_SUBTYPES \cup {"back_to_start"} :
          conv' = handle_announce_subtype_selection(
                      Event(conv, "handle_announce_subtype_selection", d,
                            <<>>))
    /\ UNCHANGED <<moderation, applications, faulted, contents, admin_msgs, fn>>

back_to_subtype(c) ==
    [c EXCEPT !.state = "ANNOUNCE_SUBTYPE_SELECTION", !.reply = "subtype_menu"]

BackToSubtype ==
    /\ Room
    /\ conv.state = "ANNOUNCE_TEXT_INPUT"
    /\ conv' = back_to_subtype(
                   Event(conv, "back_to_subtype", "back_to_subtype", <<>>))
    /\ UNCHANGED <<moderation, applications, faulted, contents, admin_msgs, fn>>

process_announce_news_text(c, ok) ==
    LET r == TextStep(c, strip(c.text), MAX_ANNOUNCE_NEWS_TEXT_LENGTH,
                      "ANNOUNCE_TEXT_INPUT")
    IN  IF r.reply = "text_kept"
        THEN complete_request(
                 [r EXCEPT !.user_data.publish_date = Some(today)], ok)
        ELSE Stay(r)

ProcessAnnounceNewsText ==
    /\ Room
    /\ conv.state = "ANNOUNCE_TEXT_INPUT"
    /\ \E text \in ConvTexts(MAX_ANNOUNCE_NEWS_TEXT_LENGTH), ok \in BOOLEAN :
          Handled(process_announce_news_text(
                      Event(conv, "process_announce_news_text", "", text),
                      ok))

\* Mutant: accepting the filtered text always leads to the date step.
CensorChoiceAskingDate(c, ok) ==
    IF c.data = "accept_censor"
    THEN Stay([c EXCEPT !.state = "CONGRAT_DATE_INPUT", !.reply = "ask_date"])
    ELSE Stay([c EXCEPT !.reply = "invalid_choice"])

handle_censor_choice(c, ok) ==
    LET current_type == c.user_data.type
        custom == /\ current_type = Some("congrat")
                  /\ c.user_data.congrat_type = Some("custom")
    IN  IF c.data = "back_to_start" THEN Stay(start_command(c, FALSE))
        ELSE IF c.data = "back_to_holiday_choice"
                /\ current_type = Some("congrat")
        THEN Stay(back_to_holiday_choice(c))
        ELSE IF c.data = "back_to_subtype"
                /\ current_type = Some("announcement")
        THEN Stay(back_to_subtype(c))
        ELSE IF c.data = "accept_censor"
        THEN IF custom
             THEN Stay([c EXCEPT !.state = "CONGRAT_DATE_INPUT",
                                 !.reply = "ask_date"])
             ELSE complete_request(
                      [c EXCEPT !.user_data.publish_date = Some(today)], ok)
        ELSE IF c.data = "edit_censor"
        THEN IF custom
             THEN Stay([c EXCEPT !.state = "CUSTOM_CONGRAT_MESSAGE_INPUT",
                                 !.reply = "ask_custom_text"])
             ELSE Stay([c EXCEPT !.state = "ANNOUNCE_TEXT_INPUT",
                                 !.reply = "ask_announce_text"])
        ELSE Stay([c EXCEPT !.reply = "invalid_choice"])

HandleCensorChoice ==
    /\ Room
    /\ conv.state = "WAIT_CENSOR_APPROVAL"
    /\ \E d \in {"accept_censor", "edit_censor", "back_to_holiday_choice",
                 "back_to_subtype", "back_to_start"}, ok \in BOOLEAN :
          Handled(handle_censor_choice(
                      Event(conv, "handle_censor_choice", d, <<>>), ok))

\* The states whose handler list holds no MessageHandler.
ButtonOnlyStates ==
    {"TYPE_SELECTION", "CONGRAT_HOLIDAY_CHOICE", "ANNOUNCE_SUBTYPE_SELECTION",
     "WAIT_CENSOR_APPROVAL"}

\* A text message in such a state matches no handler of the state and no
\* fallback (the fallbacks are commands): no callback runs.
UnhandledText ==
    /\ Room
    /\ conv.state \in ButtonOnlyStates
    /\ conv' = [Event(conv, "none", "", CleanText) EXCEPT !.reply = "none"]
    /\ UNCHANGED <<moderation, applications, faulted, contents, admin_msgs, fn>>

NextConv ==
    \/ StartCommand
    \/ CancelCommand
    \/ HandleTypeSelection
    \/ GetSenderName
    \/ EditSenderName
    \/ GetRecipientName
    \/ HandleCongratHolidayChoice
    \/ BackToHolidayChoice
    \/ ProcessCustomCongratMessage
    \/ BackToCustomMessage
    \/ ProcessCongratDate
    \/ HandleAnnounceSubtypeSelection
    \/ BackToSubtype
    \/ ProcessAnnounceNewsText
    \/ HandleCensorChoice
    \/ UnhandledText

\* The dialogue of one user on one calendar day; the table starts empty.
InitConv ==
    /\ \E date \in ClockDays : InitOn(date)
    /\ GROUP_ID = NULL

SpecConv == InitConv /\ [][NextConv]_vars

\* bot.py: the same test, on dates.
bot_is_holiday_active(holiday_date, now) ==
    LET start == DayOfYear(holiday_date) - 5
        end == DayOfYear(holiday_date) + 5
    IN  start <= DayOfYear(now) /\ DayOfYear(now) <= end

\* The days of a year.  29 February lies in the window of no holiday and the
\* windows do not reach across it, so a leap year gives the same results.
AllDays ==
    UNION {{[month |-> m, day |-> d] : d \in 1..MonthDays[m]} : m \in 1..12}

\* is_holiday_active of main.py and of bot.py applied to a holiday on a day.
ApplyIsHolidayActive ==
    /\ fn.op = "none"
    /\ \E h \in DOMAIN HOLIDAYS, now \in AllDays :
          fn' = [FnIdle EXCEPT
                    !.op = "is_holiday_active", !.arg = <<h, now>>,
                    !.valid = is_holiday_active(HOLIDAYS[h], now),
                    !.bot_valid = bot_is_holiday_active(HOLIDAYS[h], now)]
    /\ UNCHANGED <<moderation, dialogue, applications, faulted>>

NextPure ==
    \/ ApplyValidateName
    \/ ApplyCensorText
    \/ ApplyIsHolidayActive

\* The functions do not read the configuration.
InitPure ==
    /\ Init
    /\ GROUP_ID = NULL

SpecPure == InitPure /\ [][NextPure]_vars

\* ------------------------------------------------------ the store of bot.py
\* INSERT INTO applications (..., type, subtype, from_name, to_name, text,
\* publish_date, congrat_type): status defaults to 'pending', published_at to
\* NULL.  The type and text columns are kept in contents.
bot_add_application(apps, data) ==
    Append(apps, [id |-> Len(apps) + 1, user_id |-> Author,
                  publish_date |-> data.publish_date, status |-> "pending",
                  published_at |-> NULL])

\* SELECT * FROM applications WHERE id = $1
bot_get_application_details(apps, app_id, ok) ==
    IF ok /\ app_id \in 1..Len(apps) THEN Some(apps[app_id]) ELSE NULL

\* SELECT ... WHERE status = 'approved' AND published_at IS NULL ([] on error)
bot_get_approved_unpublished_applications(apps, ok) ==
    IF ok
    THEN SelectSeq(apps, LAMBDA r : r.status = "approved"
                                    /\ r.published_at = NULL)
    ELSE <<>>

\* UPDATE applications SET status = $1 WHERE id = $2
bot_update_application_status(apps, app_id, status, ok) ==
    IF ok /\ app_id \in 1..Len(apps)
    THEN [apps EXCEPT ![app_id].status = status]
    ELSE apps

\* UPDATE applications SET published_at = CURRENT_TIMESTAMP,
\*                         status = 'published' WHERE id = $1
bot_mark_application_as_published(apps, app_id, ok) ==
    IF ok /\ app_id \in 1..Len(apps)
    THEN [apps EXCEPT ![app_id].published_at = Some(today),
                      ![app_id].status = "published"]
    ELSE apps

\* --------------------------------------------------- the dialogue of bot.py
\* context.user_data of bot.py: a key that is absent, or holds None, is NULL.
BotNoData == [request_type |-> NULL, subtype |-> NULL, congrat_type |-> NULL,
              text |-> NULL, from_name |-> NULL, to_name |-> NULL,
              publish_date |-> NULL, censored_text |-> NULL,
              has_bad_words |-> NULL]

\* start shows the type menu and leaves user_data as it is.
start(c) == [c EXCEPT !.state = "TYPE_SELECTION", !.reply = "type_menu"]

cancel(c) ==
    [c EXCEPT !.state = "END", !.user_data = BotNoData, !.reply = "cancelled"]

\* c.data is the callback data after its "type_" prefix.
select_type(c) ==
    LET d == [c EXCEPT !.user_data.request_type = Some(c.data)]
    IN  IF c.data = "congrat"
        THEN [d EXCEPT !.state = "CONGRAT_HOLIDAY_CHOICE",
                       !.reply = "holiday_menu"]
        ELSE IF c.data = "announcement"
        THEN [d EXCEPT !.state = "ANNOUNCE_SUBTYPE_SELECTION",
                       !.reply = "subtype_menu"]
        ELSE [d EXCEPT !.user_data.subtype = NULL,
                       !.state = "ANNOUNCE_TEXT_INPUT",
                       !.reply = "ask_news_text"]

\* c.data is "custom_congrat_text" or names the holiday whose date follows the
\* "holiday_" prefix of the callback data.
select_congrat_holiday(c) ==
    IF c.data = "custom_congrat_text"
    THEN [c EXCEPT !.user_data.congrat_type = Some("custom"),
                   !.state = "CUSTOM_CONGRAT_MESSAGE_INPUT",
                   !.reply = "ask_custom_text"]
    ELSE LET named == [c EXCEPT !.user_data.congrat_type = Some(c.data)]
         IN  IF bot_is_holiday_active(HOLIDAYS[c.data], c.now)
             THEN [named EXCEPT
                      !.user_data.text = Some(HOLIDAY_TEMPLATES[c.data]),
                      !.state = "SENDER_NAME_INPUT",
                      !.reply = "ask_sender_name"]
             ELSE [named EXCEPT !.state = "CONGRAT_HOLIDAY_CHOICE",
                                !.reply = "holiday_inactive"]

\* The length test is on the text as typed, not on the stripped text.
process_custom_congrat_text(c) ==
    IF c.text = <<>> \/ strip(c.text) = <<>>
    THEN [c EXCEPT !.reply = "empty_text"]
    ELSE IF Len(c.text) > MAX_CONGRAT_TEXT_LENGTH
    THEN [c EXCEPT !.reply = "text_too_long"]
    ELSE [c EXCEPT !.user_data.text = Some(c.text),
                   !.state = "SENDER_NAME_INPUT",
                   !.reply = "ask_sender_name"]

process_sender_name(c) ==
    IF ~bot_validate_name(c.text)
    THEN [c EXCEPT !.reply = "invalid_sender_name"]
    ELSE [c EXCEPT !.user_data.from_name = Some(c.text),
                   !.state = "RECIPIENT_NAME_INPUT",
                   !.reply = "ask_recipient_name"]

FromLine == <<"\n", "O", "t", ":", " ">>
ToLine == <<"\n", "D", "l", "ya", ":", " ">>

\* "\nFrom: ..." and "\nTo: ..." are appended for the names that are set.
NameLine(label, name) ==
    IF name # NULL /\ name # Some(<<>>) THEN label \o Val(name) ELSE <<>>

process_recipient_name(c) ==
    IF ~bot_validate_name(c.text)
    THEN [c EXCEPT !.reply = "invalid_recipient_name"]
    ELSE LET named == [c EXCEPT !.user_data.to_name = Some(c.text)]
             d == named.user_data
             template ==
                 IF d.congrat_type # NULL
                    /\ Val(d.congrat_type) \in DOMAIN HOLIDAY_TEMPLATES
                 THEN HOLIDAY_TEMPLATES[Val(d.congrat_type)]
                 ELSE <<>>
             held == IF d.text = NULL \/ d.text = Some(<<>>)
                     THEN IF template # <<>>
                          THEN template \o <<"\n", "\n">>
                          ELSE <<>>
                     ELSE Val(d.text)
             final_text == held \o NameLine(FromLine, d.from_name)
                                \o NameLine(ToLine, d.to_name)
         IN  [named EXCEPT !.user_data.text = Some(final_text),
                           !.state = "CONGRAT_DATE_INPUT",
                           !.reply = "ask_date"]

\* complete_request of bot.py; ok: the connection opens and the INSERT
\* succeeds.  user_data.clear() runs on both paths.
bot_complete_request(c, ok) ==
    LET d == c.user_data
        app_data == [type |-> Val(d.request_type), subtype |-> d.subtype,
                     from_name |-> d.from_name, to_name |-> d.to_name,
                     text |-> Val(d.text), publish_date |-> d.publish_date]
        done == [c EXCEPT !.state = "END", !.user_data = BotNoData]
    IN  IF ok
        THEN [conv |-> [done EXCEPT !.reply = "sent_to_moderation"],
              row |-> Some(app_data), failed |-> FALSE]
        ELSE [conv |-> [done EXCEPT !.reply = "save_error"],
              row |-> NULL, failed |-> TRUE]

\* Mutant: the request completes with the text as typed, banned word or not.
CensorStepNotAsking(c, ok) ==
    bot_complete_request(c, ok)

\* The tail shared by process_congrat_date and process_announce_text: the
\* text is filtered; with a banned word the user is asked, without one the
\* request completes.
CensorStep(c, ok) ==
    LET censored == bot_censor_text(Val(c.user_data.text))
        d == [c EXCEPT
                 !.user_data.censored_text = Some(censored.text),
                 !.user_data.has_bad_words = Some(censored.contains_bad_words)]
    IN  IF censored.contains_bad_words
        THEN Stay([d EXCEPT !.state = "WAIT_CENSOR_APPROVAL",
                            !.reply = "censor_preview"])
        ELSE bot_complete_request(d, ok)

\* strptime(date_str, "%d.%m.%Y") on the text as typed.
bot_process_congrat_date(c, ok) ==
    LET parsed == strptime_dmy(c.text, ".")
    IN  IF parsed = NULL
        THEN Stay([c EXCEPT !.reply = "bad_date_format"])
        ELSE IF DateNumber(Val(parsed)) < DateNumber(NowDate(c))
        THEN Stay([c EXCEPT !.reply = "date_in_past"])
        ELSE CensorStep([c EXCEPT !.user_data.publish_date =
                                      Some(StoredDay(c, Val(parsed)))], ok)

\* c.data is the callback data after its "subtype_" prefix.
select_announce_subtype(c) ==
    [c EXCEPT !.user_data.subtype = Some(c.data),
              !.state = "ANNOUNCE_TEXT_INPUT",
              !.reply = "ask_announce_text"]

process_announce_text(c, ok) ==
    LET max_len == IF c.user_data.request_type = Some("news")
                   THEN MAX_ANNOUNCE_NEWS_TEXT_LENGTH
                   ELSE MAX_CONGRAT_TEXT_LENGTH
    IN  IF c.text = <<>> \/ strip(c.text) = <<>>
        THEN Stay([c EXCEPT !.reply = "empty_text"])
        ELSE IF Len(c.text) > max_len
        THEN Stay([c EXCEPT !.reply = "text_too_long"])
        ELSE CensorStep([c EXCEPT !.user_data.text = Some(c.text)], ok)

\* Mutant: the text is sent on as the user typed it.
CensorApprovalKeepingText(c, ok) ==
    IF c.data = "approve_censor" THEN bot_complete_request(c, ok)
    ELSE IF c.data = "edit_text"
    THEN IF c.user_data.request_type = Some("congrat")
         THEN Stay([c EXCEPT !.state = "CUSTOM_CONGRAT_MESSAGE_INPUT",
                             !.reply = "ask_custom_text"])
         ELSE Stay([c EXCEPT !.state = "ANNOUNCE_TEXT_INPUT",
                             !.reply = "ask_text_again"])
    ELSE Stay(start(c))

handle_censor_approval(c, ok) ==
    IF c.data = "approve_censor"
    THEN bot_complete_request(
             [c EXCEPT !.user_data.text = c.user_data.censored_text], ok)
    ELSE IF c.data = "edit_text"
    THEN IF c.user_data.request_type = Some("congrat")
         THEN Stay([c EXCEPT !.state = "CUSTOM_CONGRAT_MESSAGE_INPUT",
                             !.reply = "ask_custom_text"])
         ELSE IF c.user_data.request_type
                    \in {Some("announcement"), Some("news")}
         THEN Stay([c EXCEPT !.state = "ANNOUNCE_TEXT_INPUT",
                             !.reply = "ask_text_again"])
         ELSE Stay([c EXCEPT !.state = "END"])
    ELSE IF c.data = "back_to_start"
    THEN Stay(start(c))
    ELSE Stay([c EXCEPT !.state = "END"])

\* The effects of a handler call of bot.py on the table and on the
\* moderator's chat (notify_admin_new_application; ADMIN_CHAT_ID is set, or
\* check_environment had stopped the program).
BotHandled(r) ==
    /\ conv' = r.conv
    /\ faulted' = (faulted \/ r.failed)
    /\ IF r.row = NULL
       THEN UNCHANGED <<applications, contents, admin_msgs>>
       ELSE /\ applications' = bot_add_application(applications, Val(r.row))
            /\ contents' =
                   Append(contents,
                          [type |-> Val(r.row).type,
                           text |-> Val(r.row).text,
                           subtype |-> Val(r.row).subtype,
                           from_name |-> Val(r.row).from_name,
                           to_name |-> Val(r.row).to_name,
                           congrat_type |-> NULL])
            /\ admin_msgs' = admin_msgs \cup {Len(applications) + 1}
    /\ UNCHANGED <<moderation, fn>>

BotFrame ==
    UNCHANGED <<moderation, applications, faulted, contents, admin_msgs, fn>>

\* The texts a user types: a clean one, one with a banned word, a blank one,
\* and one character more than the limit of congratulations.
BotTexts ==
    {CleanText, <<"h", "u", "j">>, <<" ">>,
     Rep("a", MAX_CONGRAT_TEXT_LENGTH + 1)}

\* For an announcement or a news item also one character more than the limit
\* of the two.
BotAnnounceTexts ==
    BotTexts \cup {Rep("a", MAX_ANNOUNCE_NEWS_TEXT_LENGTH + 1)}

\* A valid name and one with a digit.
BotNames == {<<"A", "n", "n", "a">>, <<"a", "1">>}

\* The buttons of the holiday menu that are pressed.
BotHolidayButtons == {"Novyj god", "custom_congrat_text"}

\* The dates the clock shows: the last day of the window of New Year and the
\* day after it.
BotClockDays == {[month |-> 1, day |-> 6], [month |-> 1, day |-> 7]}

\* 7 January of the current year with the separator of bot.py, the day before
\* the first clock day, and the separator of main.py.
BotDateTexts ==
    {<<"0", "7", ".", "0", "1", ".", "2", "0", "2", "5">>,
     <<"0", "5", ".", "0", "1", ".", "2", "0", "2", "5">>,
     <<"0", "7", "-", "0", "1", "-", "2", "0", "2", "5">>}

\* The states whose handler list holds
\* CallbackQueryHandler(start, pattern="^back_to_start").
BotStartButtonStates == {"CONGRAT_HOLIDAY_CHOICE", "ANNOUNCE_SUBTYPE_SELECTION"}

\* /start is the entry point: it is taken when no conversation runs.  In a
\* running conversation no handler of a state and no fallback takes /start.
BotStart ==
    /\ Room
    /\ conv.state = "END"
    /\ conv' = start(Event(conv, "start", "/start", <<>>))
    /\ BotFrame

BackToStart ==
    /\ Room
    /\ conv.state \in BotStartButtonStates
    /\ conv' = start(Event(conv, "start", "back_to_start", <<>>))
    /\ BotFrame

\* The fallbacks: /cancel in every state, and the back_to_start button in the
\* states that have no handler of their own for it.
BotCancel ==
    /\ Room
    /\ conv.state # "END"
    /\ \E data \in {"/cancel", "back_to_start"} :
          /\ data = "back_to_start" =>
                conv.state \notin BotStartButtonStates
                                      \cup {"WAIT_CENSOR_APPROVAL"}
          /\ conv' = cancel(Event(conv, "cancel", data, <<>>))
    /\ BotFrame

SelectType ==
    /\ Room
    /\ conv.state = "TYPE_SELECTION"
    /\ \E data \in REQUEST_TYPES :
          conv' = select_type(Event(conv, "select_type", data, <<>>))
    /\ BotFrame

SelectCongratHoliday ==
    /\ Room
    /\ conv.state = "CONGRAT_HOLIDAY_CHOICE"
    /\ \E data \in BotHolidayButtons :
          conv' = select_congrat_holiday(
                      Event(conv, "select_congrat_holiday", data, <<>>))
    /\ BotFrame

ProcessCustomCongratText ==
    /\ Room
    /\ conv.state = "CUSTOM_CONGRAT_MESSAGE_INPUT"
    /\ \E text \in BotTexts :
          conv' = process_custom_congrat_text(
                      Event(conv, "process_custom_congrat_text", "", text))
    /\ BotFrame

ProcessSenderName ==
    /\ Room
    /\ conv.state = "SENDER_NAME_INPUT"
    /\ \E text \in BotNames :
          conv' = process_sender_name(
                      Event(conv, "process_sender_name", "", text))
    /\ BotFrame

ProcessRecipientName ==
    /\ Room
    /\ conv.state = "RECIPIENT_NAME_INPUT"
    /\ \E text \in BotNames :
          conv' = process_recipient_name(
                      Event(conv, "process_recipient_name", "", text))
    /\ BotFrame

BotProcessCongratDate ==
    /\ Room
    /\ conv.state = "CONGRAT_DATE_INPUT"
    /\ \E text \in BotDateTexts, ok \in BOOLEAN :
          BotHandled(bot_process_congrat_date(
                         Event(conv, "process_congrat_date", "", text), ok))

SelectAnnounceSubtype ==
    /\ Room
    /\ conv.state = "ANNOUNCE_SUBTYPE_SELECTION"
    /\ \E data \in ANNOUNCE_SUBTYPES :
          conv' = select_announce_subtype(
                      Event(conv, "select_announce_subtype", data, <<>>))
    /\ BotFrame

ProcessAnnounceText ==
    /\ Room
    /\ conv.state = "ANNOUNCE_TEXT_INPUT"
    /\ \E text \in BotAnnounceTexts, ok \in BOOLEAN :
          BotHandled(process_announce_text(
                         Event(conv, "process_announce_text", "", text), ok))

HandleCensorApproval ==
    /\ Room
    /\ conv.state = "WAIT_CENSOR_APPROVAL"
    /\ \E data \in {"approve_censor", "edit_text", "back_to_start"},
          ok \in BOOLEAN :
          BotHandled(handle_censor_approval(
                         Event(conv, "handle_censor_approval", data, <<>>),
                         ok))

\* ------------------------------------------------- the moderation of bot.py
\* Mutant: the status read is not compared with 'pending'.
AdminCallbackAnyStatus(apps, actor, action, app_id, ok_read, ok_write) ==
    LET details == bot_get_application_details(apps, app_id, ok_read)
        status == IF action = "approve" THEN "approved" ELSE "rejected"
        updated == bot_update_application_status(apps, app_id, status,
                                                 ok_write)
    IN  IF actor # ADMIN_CHAT_ID
        THEN [apps |-> apps, details |-> NULL, reply |-> "no_rights"]
        ELSE IF details = NULL
        THEN [apps |-> apps, details |-> NULL, reply |-> "not_found"]
        ELSE [apps |-> updated, details |-> details,
              reply |-> IF ok_write THEN status ELSE "update_error"]

\* admin_callback_handler, handled without another update or job in between;
\* action and app_id are the two fields of the callback data
\* "admin_<action>_<id>".
admin_callback_handler(apps, actor, action, app_id, ok_read, ok_write) ==
    LET details == bot_get_application_details(apps, app_id, ok_read)
        status == IF action = "approve" THEN "approved" ELSE "rejected"
        updated == bot_update_application_status(apps, app_id, status,
                                                 ok_write)
    IN  IF actor # ADMIN_CHAT_ID
        THEN [apps |-> apps, details |-> NULL, reply |-> "no_rights"]
        ELSE IF details = NULL
        THEN [apps |-> apps, details |-> NULL, reply |-> "not_found"]
        ELSE IF Val(details).status # "pending"
        THEN [apps |-> apps, details |-> details, reply |-> "already_decided"]
        ELSE [apps |-> updated, details |-> details,
              reply |-> IF ok_write THEN status ELSE "update_error"]

\* The buttons exist for the submissions the moderator's chat was told of.
AdminCallbackHandler ==
    /\ \E actor \in Actors, action \in {"approve", "reject"},
          app_id \in admin_msgs, ok_read \in BOOLEAN, ok_write \in BOOLEAN :
          LET r == admin_callback_handler(applications, actor, action, app_id,
                                          ok_read, ok_write)
          IN  /\ applications' = r.apps
              /\ adm' = [AdmIdle EXCEPT !.actor = Some(actor),
                                        !.action = action,
                                        !.app_id = app_id,
                                        !.details = r.details,
                                        !.confirm = r.reply]
              /\ rej_notes' =
                    IF r.reply = "rejected"
                    THEN [rej_notes EXCEPT ![app_id] = TRUE]
                    ELSE rej_notes
    /\ UNCHANGED <<GROUP_ID, sch, channel, pub_notes, faulted>>
    /\ UNCHANGED <<dialogue, fn>>

\* publish_to_channel: CHANNEL_ID is set (check_environment), the row is read,
\* its text is sent, and the row is marked whatever its status is now.  A
\* failed send raises before the marking; a failed marking is not looked at.
publish_to_channel(s, app_id, ok_read, ok_send, ok_mark) ==
    IF bot_get_application_details(s.apps, app_id, ok_read) = NULL \/ ~ok_send
    THEN s
    ELSE [apps |-> bot_mark_application_as_published(s.apps, app_id, ok_mark),
          channel |-> [s.channel EXCEPT ![app_id] = @ + 1]]

\* The row is due: news and announcements at once, a congratulation from its
\* publish_date on.
Due(row, types) ==
    \/ types[row.id].type \in {"news", "announcement"}
    \/ row.publish_date # NULL /\ Val(row.publish_date) <= today

\* The loop of check_pending_applications over rows[i..].
RECURSIVE PublishRows(_, _, _, _, _, _, _)
PublishRows(s, rows, i, types, ok_read, ok_send, ok_mark) ==
    IF i > Len(rows) THEN s
    ELSE LET next == IF Due(rows[i], types)
                     THEN publish_to_channel(s, rows[i].id, ok_read, ok_send,
                                             ok_mark)
                     ELSE s
         IN  PublishRows(next, rows, i + 1, types, ok_read, ok_send, ok_mark)

\* One run of the interval job, handled without an update in between.
check_pending_applications(s, types, ok_query, ok_read, ok_send, ok_mark) ==
    PublishRows(s, bot_get_approved_unpublished_applications(s.apps, ok_query),
                1, types, ok_read, ok_send, ok_mark)

CheckPendingApplications ==
    /\ \E ok_query \in BOOLEAN, ok_read \in BOOLEAN, ok_send \in BOOLEAN,
          ok_mark \in BOOLEAN :
          LET r == check_pending_applications(
                       [apps |-> applications, channel |-> channel],
                       contents, ok_query, ok_read, ok_send, ok_mark)
          IN  /\ \A i \in AppIds : channel[i] <= MaxSends
              /\ applications' = r.apps
              /\ channel' = r.channel
              /\ sch' = [SchIdle EXCEPT
                            !.rows = bot_get_approved_unpublished_applications(
                                         applications, ok_query)]
              /\ faulted' = (faulted \/ ~ok_query \/ ~ok_read \/ ~ok_send
                                     \/ ~ok_mark)
    /\ UNCHANGED <<GROUP_ID, adm, pub_notes, rej_notes>>
    /\ UNCHANGED <<dialogue, fn>>

NextBot ==
    \/ BotStart
    \/ BackToStart
    \/ BotCancel
    \/ SelectType
    \/ SelectCongratHoliday
    \/ ProcessCustomCongratText
    \/ ProcessSenderName
    \/ ProcessRecipientName
    \/ BotProcessCongratDate
    \/ SelectAnnounceSubtype
    \/ ProcessAnnounceText
    \/ HandleCensorApproval

\* bot.py after start-up: CHANNEL_ID is set, the table is empty, no
\* conversation runs.
InitBot ==
    /\ GROUP_ID = Some(GroupChat)
    /\ applications = <<>>
    /\ adm = AdmIdle
    /\ sch = SchIdle
    /\ channel = [i \in AppIds |-> 0]
    /\ pub_notes = [i \in AppIds |-> 0]
    /\ rej_notes = [i \in AppIds |-> FALSE]
    /\ faulted = FALSE
    /\ contents = <<>>
    /\ admin_msgs = {}
    /\ \E date \in BotClockDays :
          conv = [ConvIdle EXCEPT !.user_data = BotNoData, !.now = date]
    /\ fn = FnIdle

\* The dialogue of bot.py, one handler call at a time.
SpecBot == InitBot /\ [][NextBot]_vars

\* A dialogue of bot.py completes: complete_request stores what user_data
\* holds.  publish_date is absent unless the date step has run.
BotSubmit ==
    /\ Room
    /\ \E type \in REQUEST_TYPES, publish_date \in {NULL} \cup
                                    {Some(d) : d \in PublishDates} :
          /\ applications' =
                bot_add_application(applications,
                                    [publish_date |-> publish_date])
          /\ contents' =
                Append(contents,
                       [type |-> type, text |-> CleanText, subtype |-> NULL,
                        from_name |-> NULL, to_name |-> NULL,
                        congrat_type |-> NULL])
    /\ admin_msgs' = admin_msgs \cup {Len(applications) + 1}
    /\ UNCHANGED <<moderation, faulted, conv, fn>>

NextBotModeration ==
    \/ BotSubmit
    \/ AdminCallbackHandler
    \/ CheckPendingApplications

\* The decisions and the interval job do not read the clock of the dialogue.
InitBotModeration ==
    /\ InitBot
    /\ conv.now = ConvIdle.now

\* The decisions and the interval job of bot.py, one handler call or job run
\* at a time.
SpecBotModeration == InitBotModeration /\ [][NextBotModeration]_vars

\* ------------------------------------------------------------------ claims
\* ------------------------------------------------- either implementation
\* The dialogue of whichever program was started: main.py or bot.py.  The keys
\* of context.user_data tell the two apart.
IsBot == "request_type" \in DOMAIN conv.user_data

MainStep == ~IsBot /\ NextConv

BotStep == IsBot /\ NextBot

\* In bot.py the sender of a holiday congratulation gives a name that passes
\* validate_name and is a banned term ("Suka").
BannedSenderName ==
    /\ IsBot
    /\ Room
    /\ conv.state = "SENDER_NAME_INPUT"
    /\ conv.user_data.congrat_type \notin {NULL, Some("custom")}
    /\ conv' = process_sender_name(
                   Event(conv, "process_sender_name", "",
                         <<"S", "u", "k", "a">>))
    /\ BotFrame

NextBoth ==
    \/ MainStep
    \/ BotStep
    \/ BannedSenderName

InitBoth == InitConv \/ InitBot

SpecBoth == InitBoth /\ [][NextBoth]_vars

\* ------------------------------------------------ one cycle over several rows
\* The publisher alone, started on a table that holds CycleRows approved rows
\* nobody has published yet (approved while the send or the marking failed, or
\* dated for a day that has now come), dated yesterday, today or tomorrow.
CycleDates == {today - 1, today, today + 1}

CycleTables ==
    {[i \in 1..CycleRows |->
         [id |-> i, user_id |-> Author, publish_date |-> Some(d[i]),
          status |-> "approved", published_at |-> NULL]] :
       d \in [1..CycleRows -> CycleDates]}

InitCycle ==
    /\ GROUP_ID \in {NULL, Some(0), Some(GroupChat)}
    /\ applications \in CycleTables
    /\ adm = AdmIdle
    /\ sch = SchIdle
    /\ channel = [i \in 1..CycleRows |-> 0]
    /\ pub_notes = [i \in 1..CycleRows |-> 0]
    /\ rej_notes = [i \in 1..CycleRows |-> FALSE]
    /\ faulted = FALSE
    /\ contents = <<>>
    /\ admin_msgs = {}
    /\ conv = ConvIdle
    /\ fn = FnIdle

NextCycle ==
    \/ SchedStart
    \/ SchedSend
    \/ SchedNotify

SpecCycle == InitCycle /\ [][NextCycle]_vars

Present == 1..Len(applications)

Moderator == Some(ADMIN_CHAT_ID)

\* The step is a segment of the handler / of the publisher.
AdmStep == adm' # adm
SchStep == sch' # sch

\* C1: while no store call and no send has failed, the message of a submission
\* is delivered to the broadcast destination at most once, under every
\* interleaving of the approve path with a publisher cycle.
C1_SentAtMostOnce ==
    \A i \in Present : ~faulted => channel[i] <= 1

\* C2: a step changes a submission's status only along pending -> approved,
\* pending -> rejected or approved -> published.
ForwardOnly(a, b) ==
    \/ a = b
    \/ a = "pending" /\ b \in {"approved", "rejected"}
    \/ a = "approved" /\ b = "published"

C2_ForwardOnly ==
    [][\A i \in Present :
          ForwardOnly(applications[i].status, applications'[i].status)]_vars

\* C3: a decision event whose actor is not the moderator changes no row,
\* publishes nothing and sends the author no notice.
C3_NonModeratorRefused ==
    [][(AdmStep /\ adm.pc # "idle" /\ adm.actor # Moderator) =>
          /\ applications' = applications
          /\ channel' = channel
          /\ pub_notes' = pub_notes
          /\ rej_notes' = rej_notes
          /\ adm'.pc \notin {"send", "pub_notify", "notify"}]_vars

\* C4: a row becomes published (published_at set) only in a step whose send to
\* the broadcast destination was delivered.
C4_PublishedOnlyIfSent ==
    [][\A i \in Present :
          (applications[i].published_at = NULL
             /\ applications'[i].published_at # NULL)
          => channel'[i] = channel[i] + 1]_vars

\* C5: published_at is non-null if and only if status = published.
C5_PublishedAtIffPublished ==
    \A i \in Present :
        (applications[i].published_at # NULL) <=> (applications[i].status = "published")

\* C6: once published_at of a submission is set, no later decision of the
\* moderator and no later publisher cycle (none overlapping another) delivers
\* its message again, and its author gets no second publication notice.
C6_NoRepublish ==
    [][\A i \in Present :
          applications[i].published_at # NULL =>
             /\ channel'[i] = channel[i]
             /\ pub_notes'[i] <= 1]_vars

\* A published submission was rejected and approved again, and nothing more
\* was sent.
C6_Witness ==
    \E i \in Present :
        /\ applications[i].published_at # NULL
        /\ applications[i].status = "approved"
        /\ channel[i] = 1
        /\ pub_notes[i] = 1
        /\ adm.pc = "idle"
        /\ sch.pc = "idle"

\* C7: published_at of a row is written only while it is still null and the
\* row's status is approved.
C7_MarkIsCheckAndSet ==
    [][\A i \in Present :
          applications'[i].published_at # applications[i].published_at =>
             /\ applications[i].published_at = NULL
             /\ applications[i].status = "approved"]_vars

\* C8: the rows a cycle reads are approved and unpublished in the store; the
\* cycle delivers only the message of the row it is sending, whose
\* publish_date is present and not later than today; and it leaves every
\* approved row whose publish_date is later than today (or missing) unchanged.
NotDue(r) == r.publish_date = NULL \/ Val(r.publish_date) > today

C8_CycleSendsOnlyEligible ==
    [][SchStep =>
          /\ sch.pc = "idle" =>
                \A k \in 1..Len(sch'.rows) :
                    /\ applications[sch'.rows[k].id].status = "approved"
                    /\ applications[sch'.rows[k].id].published_at = NULL
          /\ \A i \in Present :
                channel'[i] # channel[i] =>
                   /\ sch.pc = "send"
                   /\ sch.rows[sch.idx].id = i
                   /\ sch.rows[sch.idx].status = "approved"
                   /\ ~NotDue(sch.rows[sch.idx])
          /\ \A i \in Present :
                (applications[i].status = "approved" /\ NotDue(applications[i])) =>
                   /\ applications'[i] = applications[i]
                   /\ channel'[i] = channel[i]
                   /\ pub_notes'[i] = pub_notes[i]]_vars

\* A cycle has delivered the message of a due row and marked it.
C8_Witness ==
    /\ sch.pc = "notify"
    /\ channel[sch.rows[sch.idx].id] = 1
    /\ applications[sch.rows[sch.idx].id].status = "published"
    /\ ~NotDue(sch.rows[sch.idx])

\* C9: the moderator approves a pending submission and no store call or send
\* fails.  If publishing is on and publish_date <= today, the handler enters
\* the publish routine with the record re-read after the status update and
\* returns with the submission published; otherwise it leaves the submission
\* approved and unpublished.
ApprovesPending(row) ==
    /\ adm.actor = Moderator
    /\ adm.action = "approve"
    /\ row.status = "pending"
    /\ ~faulted'

DueNow(row) == PublishingOn /\ ~NotDue(row)

C9_ApproveDuePublishes ==
    [][/\ (adm.pc = "answer" /\ AdmStep /\ adm.app_id \in Present
             /\ ApprovesPending(applications[adm.app_id])) =>
             IF DueNow(applications[adm.app_id])
             THEN /\ adm'.pc = "send"
                  /\ applications'[adm.app_id].status = "approved"
                  /\ adm'.fresh = Some(applications'[adm.app_id])
             ELSE /\ adm'.pc = "confirm"
                  /\ applications'[adm.app_id].status = "approved"
                  /\ applications'[adm.app_id].published_at = NULL
       /\ (adm.pc # "idle" /\ adm'.pc = "idle" /\ adm.details # NULL
             /\ ApprovesPending(Val(adm.details))) =>
             IF DueNow(Val(adm.details))
             THEN /\ applications'[adm.app_id].status = "published"
                  /\ applications'[adm.app_id].published_at # NULL
                  /\ channel'[adm.app_id] >= 1
             ELSE /\ applications'[adm.app_id].status = "approved"
                  /\ applications'[adm.app_id].published_at = NULL
                  /\ channel'[adm.app_id] = 0]_vars

\* The handler of an approve of a pending, due submission is about to return
\* and the submission is published.
C9_Witness ==
    /\ adm.pc = "confirm"
    /\ adm.actor = Moderator
    /\ adm.action = "approve"
    /\ adm.details # NULL
    /\ Val(adm.details).status = "pending"
    /\ adm.fresh # NULL
    /\ applications[adm.app_id].status = "published"
    /\ channel[adm.app_id] = 1
    /\ ~faulted

\* C10: an approve that reads an approved or published row, and a reject that
\* reads a rejected row, update nothing, publish nothing, send the author
\* nothing and report "already approved / rejected" to the actor.
Repeated(action, status) ==
    \/ action = "approve" /\ status \in {"approved", "published"}
    \/ action = "reject" /\ status = "rejected"

AlreadyText(action) ==
    IF action = "approve" THEN "already_approved" ELSE "already_rejected"

C10_RepeatedDecisionNoOp ==
    [][/\ (adm.pc = "answer" /\ AdmStep /\ adm'.details # NULL
             /\ Repeated(adm.action, applications[adm.app_id].status)) =>
             /\ applications' = applications
             /\ adm'.pc = "confirm"
             /\ adm'.confirm = AlreadyText(adm.action)
             /\ ~adm'.notify
       /\ (adm.pc # "answer" /\ AdmStep /\ adm.details # NULL
             /\ Repeated(adm.action, Val(adm.details).status)) =>
             /\ adm.pc = "confirm"
             /\ adm'.pc = "idle"
             /\ applications' = applications
             /\ channel' = channel
             /\ pub_notes' = pub_notes
             /\ rej_notes' = rej_notes]_vars

\* The handler is reporting "already approved" for a published submission.
C10_Witness ==
    /\ adm.pc = "confirm"
    /\ adm.confirm = "already_approved"
    /\ adm.details # NULL
    /\ Val(adm.details).status = "published"

\* C11: when update_application_status reports failure for an approve or a
\* reject, the handler leaves the table unchanged, shows the moderator the
\* database error, attempts no publication and sends the author nothing; when
\* it succeeds for a reject, the handler sends the author the rejection notice
\* once, after the moderator's confirmation, and then returns.
C11_UpdateFailureAborts ==
    [][/\ (AdmStep /\ adm.pc = "answer" /\ adm'.updated = "failed") =>
             /\ applications' = applications
             /\ adm'.pc = "confirm"
             /\ adm'.confirm = "db_error"
             /\ channel' = channel
             /\ pub_notes' = pub_notes
             /\ rej_notes' = rej_notes
       /\ (AdmStep /\ adm.updated = "failed") =>
             /\ adm.pc = "confirm"
             /\ adm'.pc = "idle"
             /\ applications' = applications
             /\ channel' = channel
             /\ pub_notes' = pub_notes
             /\ rej_notes' = rej_notes
       /\ (AdmStep /\ adm.action = "reject" /\ adm.updated = "ok") =>
             \/ /\ adm.pc = "confirm"
                /\ adm'.pc = "notify"
                /\ rej_notes' = rej_notes
             \/ /\ adm.pc = "notify"
                /\ adm'.pc = "idle"
                /\ rej_notes'[adm.app_id]
       /\ (AdmStep /\ adm.pc = "answer" /\ adm.action = "reject"
             /\ adm'.updated = "ok") =>
             /\ applications'[adm.app_id].status = "rejected"
             /\ adm'.pc = "confirm"
             /\ rej_notes' = rej_notes]_vars

\* The update of a decision on a pending submission has failed and the handler
\* is showing the moderator the error.
C11_Witness ==
    /\ adm.pc = "confirm"
    /\ adm.updated = "failed"
    /\ adm.confirm = "db_error"
    /\ applications[adm.app_id].status = "pending"

NameRule(name) ==
    LET t == strip(name)
    IN  /\ Len(t) >= 2
        /\ Len(t) <= 50
        /\ \A k \in 1..Len(t) : t[k] \in allowed_chars
        /\ t[1] # "-"
        /\ t[Len(t)] # "-"
        /\ \A k \in 1..(Len(t) - 1) : ~(t[k] = "-" /\ t[k + 1] = "-")

C17_ValidateNameRule ==
    fn.op = "validate_name" =>
        /\ fn.valid = NameRule(fn.arg)
        /\ fn.bot_valid = NameRule(fn.arg)

\* C18: censoring the text that censor_text returned gives that text back with
\* no violation reported, for censor_text of main.py and of bot.py.
C18_CensorIdempotent ==
    fn.op = "censor_text" =>
        /\ fn.recensored = [text |-> fn.censored.text,
                            contains_bad_words |-> FALSE]
        /\ fn.bot_recensored = [text |-> fn.bot_censored.text,
                                contains_bad_words |-> FALSE]

\* A text in which main.py masks a banned word and hides a contact, and in
\* which bot.py masks both words.
C18_Witness ==
    /\ fn.op = "censor_text"
    /\ fn.censored.contains_bad_words
    /\ fn.censored.text # fn.arg
    /\ fn.bot_censored.contains_bad_words
    /\ fn.bot_censored.text # fn.censored.text
    /\ fn.recensored.text = fn.censored.text
    /\ fn.bot_recensored.text = fn.bot_censored.text

\* C19: main.py's censor_text applied to a contact-solicitation term followed
\* by a phone number reports a violation and masks the term.
C19_ContactTermFlagged ==
    (fn.op = "censor_text" /\ fn.arg = PhoneExample) =>
        /\ fn.censored.contains_bad_words
        /\ ~re_search(<<"z", "v", "o", "n", "i", "t", "e">>, fn.censored.text)

\* The last update was a text of the announcement/news step or of the custom
\* congratulation step in which the censor finds a banned term.
BannedTextStep ==
    /\ conv.handler \in {"process_announce_news_text",
                         "process_custom_congrat_message"}
    /\ Len(strip(conv.text)) <= MAX_ANNOUNCE_NEWS_TEXT_LENGTH
    /\ censor_text(strip(conv.text)).contains_bad_words

\* C13: a text of the announcement/news step or of the custom congratulation
\* step for which the censor reports a banned term moves the dialogue to
\* WAIT_CENSOR_APPROVAL instead of completing or ending it.
C13_ViolationAwaitsApproval ==
    BannedTextStep => conv.state = "WAIT_CENSOR_APPROVAL"

\* C14: after the back_to_start button, /start or /cancel, handled in any
\* state of the conversation, user_data holds no draft field.
C14_ReturnToStartClears ==
    conv.data \in {"back_to_start", "/start", "/cancel"} =>
        conv.user_data = NoData

\* C15: a call of complete_request that reaches the insert ends the
\* conversation with user_data cleared, whether the insert succeeds or fails;
\* when it fails the user is shown the error, no row is added and nothing is
\* sent to the moderator.
C15_CompleteRequestDiscards ==
    [][(conv' # conv /\ conv'.reply \in {"save_error", "sent_to_moderation"})
          => /\ conv'.state = "END"
             /\ conv'.user_data = NoData
             /\ conv'.reply = "save_error" =>
                   UNCHANGED <<applications, contents, admin_msgs>>]_vars

\* C16: a step in which a banned term is detected (in a name, in a text or in
\* the final check) ends the conversation, adds no row and leaves user_data
\* without draft fields.
C16_ViolationDiscardsSession ==
    [][(conv' # conv /\ conv'.reply = "closed_bad_words")
          => /\ conv'.state = "END"
             /\ UNCHANGED <<applications, contents, admin_msgs>>
             /\ conv'.user_data = NoData]_vars

\* Today lies within five days before or after the date in the current year.
InWindow(date, now) ==
    \E k \in -5..5 : DayOfYear(now) = DayOfYear(date) + k

\* C20: in handle_congrat_holiday_choice the choice of a holiday leaves the
\* state CONGRAT_HOLIDAY_CHOICE only when today is within five days of the
\* holiday's date in the current year; the choice of a holiday outside that
\* window keeps the state, adds no row and does not end the conversation.
C20_InactiveHolidayStays ==
    [][(/\ conv' # conv
        /\ conv'.handler = "handle_congrat_holiday_choice"
        /\ conv'.data \in DOMAIN HOLIDAYS)
          => IF InWindow(HOLIDAYS[conv'.data], conv.now)
             THEN conv'.state = "END"
             ELSE /\ conv'.state = "CONGRAT_HOLIDAY_CHOICE"
                  /\ UNCHANGED <<applications, contents, admin_msgs>>]_vars

\* New Year was chosen on 28 December and refused.
C20_Witness ==
    /\ conv.handler = "handle_congrat_holiday_choice"
    /\ conv.data = "Novyj god"
    /\ conv.now = [month |-> 12, day |-> 28]
    /\ conv.reply = "holiday_inactive"
    /\ conv.state = "CONGRAT_HOLIDAY_CHOICE"
    /\ applications = <<>>

\* The day lies within five days before or after the month and day of the
\* holiday, in whichever year that occurrence falls.
InYearlyWindow(date, now) ==
    \E k \in -5..5 :
        DayOfYear(now) = ((DayOfYear(date) + k - 1) % 365) + 1

\* C21: is_holiday_active (main.py and bot.py) holds exactly on the days within
\* five days of the holiday's month and day, the days 27 to 31 December
\* before New Year included.
C21_WindowAcrossYearEnd ==
    fn.op = "is_holiday_active" =>
        /\ fn.valid = InYearlyWindow(HOLIDAYS[fn.arg[1]], fn.arg[2])
        /\ fn.bot_valid = InYearlyWindow(HOLIDAYS[fn.arg[1]], fn.arg[2])

\* The term occurs in the text as a substring, letter case ignored.
ContainsTerm(text, term) ==
    \E i \in 1..(Len(text) - Len(term) + 1) :
        \A k \in 1..Len(term) : Lower(text[i + k - 1]) = Lower(term[k])

ContainsBanned(text) ==
    \E n \in 1..Len(BOT_DEFAULT_BAD_WORDS) :
        ContainsTerm(text, BOT_DEFAULT_BAD_WORDS[n])

\* C30: censor_text of bot.py reports a violation exactly when the text given
\* holds a banned term as a substring, letter case ignored; the text returned
\* holds no banned term, and is the text given when no violation is reported.
C30_FlagIffBannedSubstring ==
    fn.op = "censor_text" =>
        /\ fn.bot_censored.contains_bad_words = ContainsBanned(fn.arg)
        /\ ~ContainsBanned(fn.bot_censored.text)
        /\ ~fn.bot_censored.contains_bad_words => fn.bot_censored.text = fn.arg

\* A text in which masking the first listed term ("huj") removes the
\* occurrence of a later one ("nahuj").
C30_Witness ==
    /\ fn.op = "censor_text"
    /\ fn.arg = <<"n", "a", "h", "u", "j">>
    /\ fn.bot_censored = [text |-> <<"n", "a", "*", "*", "*">>,
                          contains_bad_words |-> TRUE]

\* The row the step added to the table, with its columns.
Added(i) == Len(applications') = Len(applications) + 1 /\ i = Len(applications')

NothingAdded == UNCHANGED <<applications, contents, admin_msgs>>

\* C22: a user of type congratulation with both names entered who chooses a
\* holiday that is active today ends the dialogue in that step, and (unless
\* the store refuses the insert) exactly one row is added: pending, not
\* published, congrat_type the holiday, text its template, publish_date the
\* holiday's date in the current year.
C22_ActiveHolidayCompletes ==
    [][(/\ conv.state = "CONGRAT_HOLIDAY_CHOICE"
        /\ conv.user_data.type = Some("congrat")
        /\ conv.user_data.from_name # NULL
        /\ conv.user_data.to_name # NULL
        /\ conv'.handler = "handle_congrat_holiday_choice"
        /\ conv'.data \in DOMAIN HOLIDAYS
        /\ InWindow(HOLIDAYS[conv'.data], conv.now))
          => /\ conv'.state = "END"
             /\ \/ conv'.reply = "save_error" /\ faulted' /\ NothingAdded
                \/ /\ conv'.reply = "sent_to_moderation"
                   /\ \E i \in AppIds :
                        /\ Added(i)
                        /\ applications'[i].status = "pending"
                        /\ applications'[i].published_at = NULL
                        /\ applications'[i].publish_date =
                              Some(today + DayOfYear(HOLIDAYS[conv'.data])
                                         - DayOfYear(conv.now))
                        /\ contents'[i].type = "congrat"
                        /\ contents'[i].congrat_type = Some(conv'.data)
                        /\ contents'[i].text = HOLIDAY_TEMPLATES[conv'.data]
                        /\ contents'[i].from_name = conv.user_data.from_name
                        /\ contents'[i].to_name = conv.user_data.to_name]_vars

\* New Year chosen on 6 January: the row is dated five days back.
C22_Witness ==
    /\ conv.handler = "handle_congrat_holiday_choice"
    /\ conv.data = "Novyj god"
    /\ conv.now = [month |-> 1, day |-> 6]
    /\ conv.reply = "sent_to_moderation"
    /\ Len(applications) = 1
    /\ applications[1].publish_date = Some(today - 5)
    /\ contents[1].congrat_type = Some("Novyj god")

\* The date text is the word for today or a date that exists and is not
\* before the day of the clock.
DateAccepted(text, now) ==
    LET date_str == LowerSeq(strip(text))
        parsed == strptime_dmy(date_str, "-")
    IN  \/ date_str = Segodnya
        \/ /\ parsed # NULL
           /\ DateNumber(Val(parsed)) >=
                  DateNumber([year |-> CurrentYear, month |-> now.month,
                              day |-> now.day])

\* C24: at the date step a text that is not the word for today and not a date
\* of today or later keeps CONGRAT_DATE_INPUT, stores no publish_date and adds
\* no row; an accepted one ends the dialogue; every row of a custom
\* congratulation has publish_date on or after the day it was submitted.
C24_DateNotInPast ==
    [][/\ (conv' # conv /\ conv'.handler = "process_congrat_date")
            => IF DateAccepted(conv'.text, conv.now)
               THEN /\ conv'.state = "END"
                    /\ conv'.reply \in {"sent_to_moderation", "save_error"}
                    /\ conv'.reply = "save_error" => NothingAdded
               ELSE /\ conv'.state = "CONGRAT_DATE_INPUT"
                    /\ conv'.user_data.publish_date = NULL
                    /\ NothingAdded
       /\ \A i \in 1..Len(applications') :
            contents'[i].congrat_type = Some("custom") =>
                Val(applications'[i].publish_date) >= today]_vars

\* A custom congratulation stored for the day after it was submitted.
C24_Witness ==
    /\ conv.handler = "process_congrat_date"
    /\ conv.reply = "sent_to_moderation"
    /\ Len(applications) = 1
    /\ contents[1].congrat_type = Some("custom")
    /\ applications[1].publish_date = Some(today + 1)

\* C25: every row of an announcement or of a news item has publish_date equal
\* to the day its dialogue completed, and the date step is entered by
\* congratulations only.
C25_AnnounceNewsDatedToday ==
    /\ \A i \in Present :
          contents[i].type \in {"announcement", "news"} =>
              applications[i].publish_date = Some(today)
    /\ conv.state = "CONGRAT_DATE_INPUT" =>
          conv.user_data.type = Some("congrat")

\* An announcement stored after the user accepted the filtered text.
C25_Witness ==
    /\ conv.handler = "handle_censor_choice"
    /\ conv.data = "accept_censor"
    /\ Len(applications) = 1
    /\ contents[1].type = "announcement"
    /\ contents[1].text = ContactHidden
    /\ applications[1].publish_date = Some(today)

\* The text is not valid input for the text-input state.
InvalidText(state, text, now) ==
    \/ /\ state \in {"SENDER_NAME_INPUT", "RECIPIENT_NAME_INPUT"}
       /\ ~validate_name(strip(text))
    \/ /\ state = "CUSTOM_CONGRAT_MESSAGE_INPUT"
       /\ (strip(text) = <<>> \/ Len(strip(text)) > MAX_CONGRAT_TEXT_LENGTH)
    \/ /\ state = "ANNOUNCE_TEXT_INPUT"
       /\ \/ strip(text) = <<>>
          \/ Len(strip(text)) > MAX_ANNOUNCE_NEWS_TEXT_LENGTH
    \/ /\ state = "CONGRAT_DATE_INPUT"
       /\ ~DateAccepted(text, now)

\* C26: a text message in a state that takes buttons only, and a text that is
\* not valid in a text-input state, leave the state and user_data as they
\* were and add no row.
C26_WrongInputChangesNothing ==
    [][(/\ conv' # conv
        /\ conv'.text # <<>>
        /\ \/ conv.state \in {"TYPE_SELECTION", "CONGRAT_HOLIDAY_CHOICE",
                              "ANNOUNCE_SUBTYPE_SELECTION",
                              "WAIT_CENSOR_APPROVAL"}
           \/ InvalidText(conv.state, conv'.text, conv.now))
          => /\ conv'.state = conv.state
             /\ conv'.user_data = conv.user_data
             /\ NothingAdded]_vars

\* A text message arrived while the user was asked to accept or edit the
\* filtered text.
C26_Witness ==
    /\ conv.state = "WAIT_CENSOR_APPROVAL"
    /\ conv.handler = "none"
    /\ conv.text = CleanText
    /\ conv.user_data.censored_text = Some(ContactHidden)

\* C23: in bot.py a text is taken exactly when it is not blank and not longer
\* than the limit of its kind (500 for a custom congratulation, 300 for an
\* announcement and for a news item); a blank or longer text keeps the state
\* and user_data and adds no row.
C23_TextLengthLimits ==
    [][(/\ conv' # conv
        /\ conv'.handler \in {"process_custom_congrat_text",
                              "process_announce_text"})
          => LET text == conv'.text
                 limit == IF conv'.handler = "process_custom_congrat_text"
                          THEN 500 ELSE 300
             IN  IF strip(text) = <<>> \/ Len(strip(text)) > limit
                 THEN /\ conv'.state = conv.state
                      /\ conv'.user_data = conv.user_data
                      /\ NothingAdded
                 ELSE Len(text) <= limit => conv'.state # conv.state]_vars

\* C27: in bot.py a stored row has a subtype only if it is an announcement,
\* and names and a publish date only if it is a congratulation.
C27_NoFieldCarriedOver ==
    \A i \in Present :
        /\ contents[i].subtype # NULL => contents[i].type = "announcement"
        /\ (\/ contents[i].from_name # NULL
            \/ contents[i].to_name # NULL
            \/ applications[i].publish_date # NULL)
               => contents[i].type = "congrat"

\* C28: in bot.py a decision of an actor other than the moderator changes no
\* row and sends nothing; a decision changes a row only if the moderator took
\* it and the status read was pending, to approved or rejected; decisions and
\* runs of the interval job move a status only pending -> approved,
\* pending -> rejected, approved -> published.
C28_ModeratorOnlyForward ==
    [][/\ \A i \in Present :
            ForwardOnly(applications[i].status, applications'[i].status)
       /\ (adm' # adm /\ adm'.actor # Moderator)
             => UNCHANGED <<applications, channel, pub_notes, rej_notes>>
       /\ (adm' # adm /\ applications' # applications)
             => /\ adm'.actor = Moderator
                /\ applications[adm'.app_id].status = "pending"
                /\ applications'[adm'.app_id].status
                      \in {"approved", "rejected"}
                /\ \A i \in Present \ {adm'.app_id} :
                      applications'[i] = applications[i]]_vars

\* A row was approved and published, and a later press of another actor was
\* refused.
C28_Witness ==
    /\ Len(applications) = 1
    /\ applications[1].status = "published"
    /\ channel[1] = 1
    /\ adm.actor = Some(ADMIN_CHAT_ID + 1)
    /\ adm.confirm = "no_rights"

\* C29: in bot.py an announcement or news text with a banned term leads to
\* WAIT_CENSOR_APPROVAL with has_bad_words set and no row added; there
\* edit_text leads back to the text step of the type and adds no row, and
\* approve_censor adds (unless the store refuses) exactly one row, pending,
\* whose text is the masked text.
C29_CensorApprovalFlow ==
    [][/\ (/\ conv' # conv
           /\ conv'.handler = "process_announce_text"
           /\ conv.user_data.request_type
                 \in {Some("announcement"), Some("news")}
           /\ Len(conv'.text) <= 300
           /\ ContainsBanned(conv'.text))
             => /\ conv'.state = "WAIT_CENSOR_APPROVAL"
                /\ conv'.user_data.has_bad_words = Some(TRUE)
                /\ NothingAdded
       /\ (conv'.handler = "handle_censor_approval"
           /\ conv'.data = "edit_text" /\ conv' # conv)
             => /\ conv'.state =
                      IF conv.user_data.request_type = Some("congrat")
                      THEN "CUSTOM_CONGRAT_MESSAGE_INPUT"
                      ELSE "ANNOUNCE_TEXT_INPUT"
                /\ NothingAdded
       /\ (conv'.handler = "handle_censor_approval"
           /\ conv'.data = "approve_censor" /\ conv' # conv)
             => /\ conv'.state = "END"
                /\ \/ conv'.reply = "save_error" /\ NothingAdded
                   \/ \E i \in AppIds :
                        /\ Added(i)
                        /\ applications'[i].status = "pending"
                        /\ contents'[i].text =
                              Val(conv.user_data.censored_text)
                        /\ contents'[i].text # Val(conv.user_data.text)
                        /\ ~ContainsBanned(contents'[i].text)]_vars

\* An announcement whose text was a banned word, stored masked.
C29_Witness ==
    /\ conv.handler = "handle_censor_approval"
    /\ conv.data = "approve_censor"
    /\ Len(applications) = 1
    /\ applications[1].status = "pending"
    /\ contents[1].type = "announcement"
    /\ contents[1].text = Mask

\* C31: in bot.py a run of the interval job sends a row to the channel only if
\* the row is approved, not published, and has a publish_date that is today
\* or earlier, whatever its type; other rows are left as they are.
C31_OnlyDueRowsPublished ==
    [][\A i \in Present :
          IF /\ applications[i].status = "approved"
             /\ applications[i].published_at = NULL
             /\ applications[i].publish_date # NULL
             /\ Val(applications[i].publish_date) <= today
          THEN TRUE
          ELSE /\ channel'[i] = channel[i]
               /\ adm' = adm => applications'[i] = applications[i]]_vars

\* C32: in bot.py the text of a row is sent to the channel at most once, also
\* when marking the row as published fails after the send.
C32_BotSentAtMostOnce ==
    \A i \in Present : channel[i] <= 1

\* C33: in main.py, when decisions and publisher cycles never overlap, a
\* publisher cycle never sends the message of a row whose message was already
\* delivered to the broadcast destination, also when the marking of the row
\* failed after the delivery.
C33_NeverSelectedAgain ==
    [][\A i \in Present :
          (SchStep /\ channel[i] >= 1) => channel'[i] = channel[i]]_vars

\* C34: in main.py, under every interleaving of a publisher cycle with the
\* moderator's decisions, a row whose author was sent the rejection notice
\* is not published in any later state, and no later step delivers its message
\* to the broadcast destination.
C34_RejectedStaysUnpublished ==
    [][\A i \in Present :
          rej_notes[i] =>
             /\ applications'[i].status # "published"
             /\ channel'[i] = channel[i]]_vars

\* C35: in main.py a publisher cycle goes through the rows of its query once
\* and in order: whatever the outcome of the send and of the marking of the
\* row it has just handled, it next handles the first later row of the query
\* that is due, and it ends only when no later row is due.
DueIdx(rows) == {k \in 1..Len(rows) : SchedDue(rows[k], today)}

Least(S) == CHOOSE k \in S : \A m \in S : k <= m

C35_FailureDoesNotAbortCycle ==
    [][SchStep =>
          LET rows  == IF sch.pc = "idle" THEN sch'.rows ELSE sch.rows
              later == {k \in DueIdx(rows) : k > sch.idx}
          IN  \/ sch.pc = "send" /\ sch' = [sch EXCEPT !.pc = "notify"]
              \/ later = {} /\ sch' = SchIdle
              \/ later # {} /\ sch' = [pc |-> "send", rows |-> rows,
                                       idx |-> Least(later)]]_vars

\* The send and the marking of the first row of the query failed, and the
\* cycle is sending the second row.
C35_Witness ==
    /\ sch.pc = "send"
    /\ sch.idx = 2
    /\ SchedDue(sch.rows[1], today)
    /\ faulted
    /\ channel[sch.rows[1].id] = 0
    /\ applications[sch.rows[1].id].status = "approved"

\* C36: in main.py the moderator's chat receives the message of a submission
\* only in the step whose INSERT returned that submission's id, so at most
\* once per stored row and never for a submission that was not stored; and a
\* step that stores a row tells the user that the submission went to
\* moderation and ends the dialogue, whether or not that message was delivered.
C36_ModeratorToldOnlyOfStoredRows ==
    [][/\ \A i \in admin_msgs' \ admin_msgs :
             /\ i = Len(applications) + 1
             /\ Len(applications') = i
       /\ admin_msgs' \subseteq 1..Len(applications')
       /\ Len(applications') > Len(applications) =>
             /\ conv'.reply = "sent_to_moderation"
             /\ conv'.state = "END"
             /\ Len(applications') = Len(applications) + 1
             /\ SubSeq(applications', 1, Len(applications)) = applications]_vars

\* A dialogue stored its row and told the user so while the message to the
\* moderator's chat was lost.
C36_Witness ==
    /\ Len(applications) = 1
    /\ conv.handler # "none"
    /\ conv.reply = "sent_to_moderation"
    /\ admin_msgs = {}

\* C37: in main.py the author's publication notice of a row is sent only by a
\* publish routine that was given the row as approved and unpublished while
\* publishing was on, and that enters the notice in the very step in which its
\* marking set the row to published with published_at of today.
Sendable(app_data) ==
    /\ PublishingOn
    /\ app_data.status = "approved"
    /\ app_data.published_at = NULL

MarkedNow(i) ==
    /\ applications'[i].status = "published"
    /\ applications'[i].published_at = Some(today)

C37_NoticeOnlyAfterMarking ==
    [][/\ \A i \in Present :
             pub_notes'[i] # pub_notes[i] =>
                /\ pub_notes'[i] = pub_notes[i] + 1
                /\ applications[i].published_at # NULL
                /\ \/ adm.pc = "pub_notify" /\ adm.app_id = i
                   \/ sch.pc = "notify" /\ sch.rows[sch.idx].id = i
       /\ (adm'.pc = "pub_notify" /\ adm.pc # "pub_notify") =>
             /\ adm.pc = "send"
             /\ Sendable(Val(adm.fresh))
             /\ MarkedNow(adm.app_id)
       /\ (sch'.pc = "notify" /\ sch.pc # "notify") =>
             /\ sch.pc = "send"
             /\ Sendable(sch.rows[sch.idx])
             /\ MarkedNow(sch.rows[sch.idx].id)]_vars

\* The message of a row was delivered, the marking failed, and the publish
\* routine returned to the decision handler without a notice to the author.
C37_Witness ==
    /\ adm.pc = "confirm"
    /\ adm.action = "approve"
    /\ adm.fresh # NULL
    /\ channel[adm.app_id] = 1
    /\ applications[adm.app_id].published_at = NULL
    /\ pub_notes[adm.app_id] = 0

\* C38: in main.py and in bot.py alike, the text of every stored submission
\* holds no term of the program's built-in banned list as a substring, letter
\* case ignored, whatever path the dialogue took to complete_request.
BannedIn(text, words) ==
    \E n \in 1..Len(words) : ContainsTerm(text, words[n])

Masked(text) ==
    \E k \in 1..(Len(text) - 2) :
        text[k] = "*" /\ text[k + 1] = "*" /\ text[k + 2] = "*"

C38_NoBannedTermStored ==
    \A k \in 1..Len(contents) :
        ~BannedIn(contents[k].text,
                  IF IsBot THEN BOT_DEFAULT_BAD_WORDS ELSE DEFAULT_BAD_WORDS)

\* bot.py stored a congratulation whose sender's name is a banned term: the
\* name is masked in the stored text.
C38_Witness ==
    /\ IsBot
    /\ Len(contents) = 1
    /\ contents[1].from_name = Some(<<"S", "u", "k", "a">>)
    /\ Masked(contents[1].text)

\* C39: in main.py every stored congratulation carries a sender's name and a
\* recipient's name, and each of the two passes validate_name and holds no
\* banned word, whatever buttons (edit_sender_name, edit_recipient_name,
\* back_to_holiday_choice, back_to_custom_message, back_to_start) were pressed
\* on the way.
NameAccepted(name) ==
    /\ name # NULL
    /\ validate_name(Val(name))
    /\ ~censor_text(Val(name)).contains_bad_words

C39_CongratNamesChecked ==
    \A k \in 1..Len(contents) :
        contents[k].type = "congrat" =>
            /\ NameAccepted(contents[k].from_name)
            /\ NameAccepted(contents[k].to_name)

\* A congratulation with the user's own text was stored: the dialogue went
\* through both name steps, the text step, and the date step.
C39_Witness ==
    /\ Len(contents) = 1
    /\ contents[1].type = "congrat"
    /\ contents[1].congrat_type = Some("custom")
    /\ contents[1].from_name # NULL
    /\ contents[1].to_name # NULL

====
